---- MODULE Spec2Model ----
(***************************************************************************)
(* Question-generation pipeline of the NLP service: the text chunker, the  *)
(* retrying Ollama client, the question validator, the Redis question      *)
(* cache and the orchestrator (QuestionGenerator.generate).                *)
(*                                                                         *)
(* Texts are sequences of one-character strings over Alphabet; scores are  *)
(* integers in hundredths (stage scores) and ten-thousandths (overall).    *)
(***************************************************************************)
EXTENDS Integers, Sequences, FiniteSets, TLC

(***************************************************************************)
(* Bounds of the model.                                                    *)
(***************************************************************************)
\* number of generate() calls made on one OllamaClient in SpecClient
MaxCalls == 2
\* longest input text of SpecChunker, in characters
MaxTextLen == 6
\* largest chunk_size_words and overlap_words a TextChunker is built with
MaxChunkSize == 4
MaxOverlap == 2
\* size of the space of truncated digests (stands for 16 hex characters)
HashSpace == 8
\* longest input text of SpecChunkerWords, in words
MaxTokens == 8
\* number of requests one QuestionGenerator serves in Spec
MaxRequests == 2
\* largest request.count in Spec (the request model allows 1..10)
MaxCount == 2

(***************************************************************************)
(* Program constants.                                                      *)
(***************************************************************************)
\* a schedule with one more delay (mutant)
RETRY_DELAYS_Longer == <<2, 4, 8, 16>>

\* llm_client.py:35  RETRY_DELAYS = [2, 4, 8]
RETRY_DELAYS == <<2, 4, 8>>
\* config.py:47,48  chunk_size_words = 800, chunk_overlap_words = 200
DefaultChunkSizeWords == 800
DefaultChunkOverlapWords == 200
\* text_chunker.py:193  current_sentences[0][:50]
LocatePrefixLen == 50
\* question_validator.py:31-36  length constraints of the validator
MIN_QUESTION_LENGTH == 10
MAX_QUESTION_LENGTH == 500
MIN_OPTION_LENGTH == 1
MAX_OPTION_LENGTH == 200
MIN_EXPLANATION_LENGTH == 20
\* question_validator.py:284  variance > 2000
VarianceThreshold == 2000
\* config.py:53  min_quality_score = 0.4, in hundredths
MinQualityScore == 40
\* models/question.py: Field constraints of GeneratedQuestion and QuestionOption
ModelMinQuestionLength == 10
ModelMaxQuestionLength == 1000
ModelMinOptionLength == 1
ModelMaxOptionLength == 500
ModelMinExplanationLength == 10
ModelMaxExplanationLength == 1000

VARIABLES
    \* ---- OllamaClient._execute_with_retry: one call of generate() ----
    cpc,            \* "idle" | "attempting" | "sleeping" | "returned" | "raised"
    attempt,        \* loop variable of _execute_with_retry (1-based)
    last_error,     \* local last_error ("none" when None)
    payload_format, \* payload.get("format"): "json" | "none"
    client_result,  \* what generate() returned or raised
    client_log,     \* history: the attempts made and the sleeps started, in order
    calls,          \* number of generate() calls started (in Spec: by this request)
    \* ---- TextChunker: one chunker and one call of chunk_text ----
    chunker,        \* the TextChunker instance (its attributes)
    ck_text,        \* the argument of chunk_text
    ck_result,      \* what chunk_text returned or raised ("kind": "none" before)
    ck_text2,       \* the argument of a second chunk_text call on the same chunker
    ck_result2,     \* what the second call returned or raised
    \* ---- QuestionGenerator.generate: one generator, one request at a time ----
    gpc,            \* "idle" | "loop" | "await" | "done" | "failed"
    request,        \* the QuestionGenerationRequest
    chunks,         \* chunking_result.chunks
    idx,            \* position of the for loop in chunks (1-based)
    all_questions,  \* local all_questions
    total_generated,\* local total_generated
    from_cache,     \* local from_cache
    questions_per_chunk,
    response,       \* the QuestionGenerationResponse returned (NoResponse before)
    redis,          \* the Redis store: key -> serialized entry, or Nil
    requests,       \* number of generate() calls started
    chunk_log,      \* history of this run: one entry per chunk taken by the loop
    \* ---- QuestionValidator: one call of validate ----
    vq_data,        \* the argument question_data (a candidate)
    vq_difficulty,  \* the argument difficulty ("none" when None)
    vq_source,      \* whether a source_text was passed
    vq_result,      \* what validate returned or raised ("kind": "none" before)
    \* ---- OllamaClient attributes and the route handlers that own a client ----
    http_client,    \* OllamaClient._client: "absent" (None) | "open"
    client_model,   \* OllamaClient.model, the configured model name
    health,         \* what check_health returned ("kind": "none" before)
    hpc,            \* the /generate handler: "idle" | "running" | "returned" |
                    \* "raised" | "abandoned"
    run_attempts    \* history: the HTTP attempts made by the run so far
                    \* (followed in SpecFair only)

client_vars == <<cpc, attempt, last_error, payload_format, client_result,
                 client_log, calls>>
chunker_vars == <<chunker, ck_text, ck_result, ck_text2, ck_result2>>
validator_vars == <<vq_data, vq_difficulty, vq_source, vq_result>>
handler_vars == <<http_client, client_model, health, hpc, run_attempts>>
locals == <<request, chunks, idx, all_questions, total_generated, from_cache,
            questions_per_chunk>>
gen_vars == <<gpc, request, chunks, idx, all_questions, total_generated,
              from_cache, questions_per_chunk, response, redis, requests,
              chunk_log>>

vars == <<cpc, attempt, last_error, payload_format, client_result,
          client_log, calls, chunker, ck_text, ck_result, ck_text2, ck_result2,
          gpc, request, chunks, idx, all_questions, total_generated,
          from_cache, questions_per_chunk, response, redis, requests,
          chunk_log, vq_data, vq_difficulty, vq_source, vq_result,
          http_client, client_model, health, hpc, run_attempts>>

(***************************************************************************)
(* Texts: sequences of characters. "w" is a word character, "." a sentence *)
(* terminator and " " whitespace.                                          *)
(***************************************************************************)
Alphabet == {"w", ".", " "}
Whitespace == {" "}
Texts(n) == UNION {[1..k -> Alphabet] : k \in 0..n}

Min(a, b) == IF a < b THEN a ELSE b
Max(a, b) == IF a > b THEN a ELSE b

\* str.lstrip / str.rstrip / str.strip
RECURSIVE LStrip(_)
LStrip(t) == IF t # <<>> /\ Head(t) \in Whitespace THEN LStrip(Tail(t)) ELSE t
RECURSIVE RStrip(_)
RStrip(t) ==
    IF t # <<>> /\ t[Len(t)] \in Whitespace THEN RStrip(SubSeq(t, 1, Len(t) - 1)) ELSE t
Strip(t) == RStrip(LStrip(t))

\* str.split(): the maximal runs of non-whitespace characters, in order
RECURSIVE SplitFrom(_, _, _)
SplitFrom(t, i, word) ==
    IF i > Len(t) THEN (IF word = <<>> THEN <<>> ELSE <<word>>)
    ELSE IF t[i] \in Whitespace
         THEN (IF word = <<>> THEN <<>> ELSE <<word>>) \o SplitFrom(t, i + 1, <<>>)
         ELSE SplitFrom(t, i + 1, Append(word, t[i]))
Split(t) == SplitFrom(t, 1, <<>>)
WordCount(t) == Len(Split(t))

\* " ".join(parts)
RECURSIVE Join(_)
Join(parts) ==
    IF parts = <<>> THEN <<>>
    ELSE IF Len(parts) = 1 THEN parts[1]
    ELSE parts[1] \o <<" ">> \o Join(Tail(parts))

\* str.find(pat, start): the least index >= start (0-based) where pat occurs, or -1
OccursAt(t, pat, k) ==
    /\ k + Len(pat) <= Len(t)
    /\ \A j \in 1..Len(pat) : t[k + j] = pat[j]
Find(t, pat, start) ==
    LET hits == {k \in start..Len(t) : OccursAt(t, pat, k)} IN
    IF hits = {} THEN -1 ELSE CHOOSE k \in hits : \A h \in hits : k <= h

\* sum(len(s.split()) for s in sentences)
RECURSIVE SumWords(_)
SumWords(sentences) ==
    IF sentences = <<>> THEN 0 ELSE WordCount(Head(sentences)) + SumWords(Tail(sentences))

\* hashlib.sha256(text.encode()).hexdigest()[:16]: a deterministic digest
\* into a space smaller than the space of texts, so distinct texts can collide
RECURSIVE Digest(_, _)
Digest(t, i) ==
    IF i > Len(t) THEN Len(t) % HashSpace
    ELSE ((CASE t[i] = "w" -> 1 [] t[i] = "." -> 3 [] OTHER -> 5) * i
          + 3 * Digest(t, i + 1)) % HashSpace
HashText(t) == Digest(t, 1) % HashSpace

(***************************************************************************)
(* TextChunker                                                             *)
(***************************************************************************)
\* TextChunker.__init__ (None and 0 both take the configured default: "or");
\* int(n * 0.9) = (9n) div 10 and int(n * 1.1) = (11n) div 10 for 0 <= n <= 5000
TextChunkerInit(chunk_size_words, overlap_words, respect_sentences) ==
    LET size == IF chunk_size_words # 0 THEN chunk_size_words ELSE DefaultChunkSizeWords
    IN [chunk_size_words |-> size,
        overlap_words |-> IF overlap_words # 0 THEN overlap_words
                          ELSE DefaultChunkOverlapWords,
        respect_sentences |-> respect_sentences,
        min_chunk_words |-> (size * 9) \div 10,
        max_chunk_words |-> (size * 11) \div 10]

\* the sentence segmenter (spaCy's sentencizer): a sentence ends after a
\* terminator that is followed by whitespace
RECURSIVE Segment(_, _, _)
Segment(t, i, cur) ==
    IF i > Len(t) THEN <<cur>>
    ELSE IF t[i] = "." /\ i < Len(t) /\ t[i + 1] \in Whitespace
         THEN <<Append(cur, t[i])>> \o Segment(t, i + 1, <<>>)
         ELSE Segment(t, i + 1, Append(cur, t[i]))

\* [f(x) for x in xs if g(x)] with f = strip and g = non-empty after strip
RECURSIVE StripNonEmpty(_)
StripNonEmpty(xs) ==
    IF xs = <<>> THEN <<>>
    ELSE IF Strip(Head(xs)) = <<>> THEN StripNonEmpty(Tail(xs))
    ELSE <<Strip(Head(xs))>> \o StripNonEmpty(Tail(xs))

\* TextChunker._get_sentences
GetSentences(text) == StripNonEmpty(Segment(text, 1, <<>>))

\* _create_chunk with the chunk index mixed into the digest (mutant)
CreateChunk_IndexedHash(text, chunk_index, start_index, end_index, overlap_start, overlap_end) ==
    [id |-> <<"chunk", chunk_index, (HashText(text) + chunk_index) % HashSpace>>,
     text |-> text,
     word_count |-> WordCount(text),
     char_count |-> Len(text),
     start_index |-> start_index,
     end_index |-> end_index,
     chunk_index |-> chunk_index,
     overlap_start |-> overlap_start,
     overlap_end |-> overlap_end,
     hash |-> (HashText(text) + chunk_index) % HashSpace]

\* TextChunker._create_chunk
CreateChunk(text, chunk_index, start_index, end_index, overlap_start, overlap_end) ==
    [id |-> <<"chunk", chunk_index, HashText(text)>>,
     text |-> text,
     word_count |-> WordCount(text),
     char_count |-> Len(text),
     start_index |-> start_index,
     end_index |-> end_index,
     chunk_index |-> chunk_index,
     overlap_start |-> overlap_start,
     overlap_end |-> overlap_end,
     hash |-> HashText(text)]

\* TextChunker._get_overlap_sentences: the loop over reversed(sentences)
RECURSIVE OverlapFrom(_, _, _, _, _)
OverlapFrom(sentences, i, target_words, overlap, word_count) ==
    IF i = 0 THEN overlap
    ELSE LET sentence_words == WordCount(sentences[i]) IN
         IF word_count + sentence_words > target_words /\ overlap # <<>>
         THEN overlap
         ELSE OverlapFrom(sentences, i - 1, target_words,
                          <<sentences[i]>> \o overlap, word_count + sentence_words)
\* _get_overlap_sentences without "and overlap_sentences" in its break test,
\* so that a last sentence longer than the target is left out (mutant)
RECURSIVE OverlapFrom_WithinTarget(_, _, _, _, _)
OverlapFrom_WithinTarget(sentences, i, target_words, overlap, word_count) ==
    IF i = 0 THEN overlap
    ELSE LET sentence_words == WordCount(sentences[i]) IN
         IF word_count + sentence_words > target_words
         THEN overlap
         ELSE OverlapFrom_WithinTarget(sentences, i - 1, target_words,
                          <<sentences[i]>> \o overlap, word_count + sentence_words)
GetOverlapSentences_WithinTarget(sentences, target_words) ==
    OverlapFrom_WithinTarget(sentences, Len(sentences), target_words, <<>>, 0)
\* _get_overlap_sentences taking the first sentence of the closed chunk
\* instead of its last ones (mutant)
GetOverlapSentences_FromStart(sentences, target_words) == <<sentences[1]>>
\* _get_overlap_sentences keeping the last sentence only (mutant)
GetOverlapSentences_LastOnly(sentences, target_words) == <<sentences[Len(sentences)]>>
GetOverlapSentences(sentences, target_words) ==
    OverlapFrom(sentences, Len(sentences), target_words, <<>>, 0)

\* the locals of _create_chunks_from_sentences at the start of the loop
\* (lists: history, the sentence list each yielded chunk was joined from)
ChunkLoopInit ==
    [chunk_index |-> 0, current_sentences |-> <<>>, current_word_count |-> 0,
     chunk_start_position |-> 0, out |-> <<>>, lists |-> <<>>]

\* the loop closing a chunk as soon as the lower bound is reached (mutant)
ChunkLoopStep_AtLowerBound(self, st, sentence, original_text) ==
    LET cur == Append(st.current_sentences, sentence)
        cnt == st.current_word_count + WordCount(sentence)
    IN IF cnt >= self.min_chunk_words
       THEN LET chunk_text == Join(cur)
                found == Find(original_text,
                              SubSeq(cur[1], 1, Min(LocatePrefixLen, Len(cur[1]))),
                              st.chunk_start_position)
                chunk_start == IF found = -1 THEN st.chunk_start_position ELSE found
                chunk_end == chunk_start + Len(chunk_text)
                overlap == GetOverlapSentences(cur, self.overlap_words)
            IN [chunk_index |-> st.chunk_index + 1,
                current_sentences |-> overlap,
                current_word_count |-> SumWords(overlap),
                chunk_start_position |-> chunk_end,
                out |-> Append(st.out,
                          CreateChunk(chunk_text, st.chunk_index, chunk_start,
                                      chunk_end, st.chunk_index > 0, TRUE)),
                lists |-> Append(st.lists, cur)]
       ELSE [st EXCEPT !.current_sentences = cur, !.current_word_count = cnt]

\* one iteration of the for loop of _create_chunks_from_sentences
ChunkLoopStep(self, st, sentence, original_text) ==
    LET cur == Append(st.current_sentences, sentence)
        cnt == st.current_word_count + WordCount(sentence)
    IN IF cnt >= self.min_chunk_words /\ cnt >= self.chunk_size_words
       THEN LET chunk_text == Join(cur)
                found == Find(original_text,
                              SubSeq(cur[1], 1, Min(LocatePrefixLen, Len(cur[1]))),
                              st.chunk_start_position)
                chunk_start == IF found = -1 THEN st.chunk_start_position ELSE found
                chunk_end == chunk_start + Len(chunk_text)
                overlap == GetOverlapSentences(cur, self.overlap_words)
            IN [chunk_index |-> st.chunk_index + 1,
                current_sentences |-> overlap,
                current_word_count |-> SumWords(overlap),
                chunk_start_position |-> chunk_end,
                out |-> Append(st.out,
                          CreateChunk(chunk_text, st.chunk_index, chunk_start,
                                      chunk_end, st.chunk_index > 0, TRUE)),
                lists |-> Append(st.lists, cur)]
       ELSE [st EXCEPT !.current_sentences = cur, !.current_word_count = cnt]

RECURSIVE ChunkLoop(_, _, _, _, _)
ChunkLoop(self, st, sentences, i, original_text) ==
    IF i > Len(sentences) THEN st
    ELSE ChunkLoop(self, ChunkLoopStep(self, st, sentences[i], original_text),
                   sentences, i + 1, original_text)

\* every remainder below the target is skipped, also the first chunk (mutant)
CreateChunksFromSentences_SkipBelowTarget(self, sentences, original_text) ==
    LET st == ChunkLoop(self, ChunkLoopInit, sentences, 1, original_text) IN
    IF st.current_sentences = <<>> THEN st.out
    ELSE IF st.current_word_count < self.chunk_size_words
    THEN st.out
    ELSE LET chunk_text == Join(st.current_sentences)
             found == Find(original_text,
                           SubSeq(st.current_sentences[1], 1,
                                  Min(LocatePrefixLen, Len(st.current_sentences[1]))),
                           st.chunk_start_position)
             chunk_start == IF found = -1 THEN st.chunk_start_position ELSE found
         IN Append(st.out,
                   CreateChunk(chunk_text, st.chunk_index, chunk_start,
                               Len(original_text), st.chunk_index > 0, FALSE))

\* TextChunker._create_chunks_from_sentences: the chunks it yields
CreateChunksFromSentences(self, sentences, original_text) ==
    LET st == ChunkLoop(self, ChunkLoopInit, sentences, 1, original_text) IN
    IF st.current_sentences = <<>> THEN st.out
    ELSE IF st.current_word_count < self.min_chunk_words \div 2 /\ st.chunk_index > 0
    THEN st.out
    ELSE LET chunk_text == Join(st.current_sentences)
             found == Find(original_text,
                           SubSeq(st.current_sentences[1], 1,
                                  Min(LocatePrefixLen, Len(st.current_sentences[1]))),
                           st.chunk_start_position)
             chunk_start == IF found = -1 THEN st.chunk_start_position ELSE found
         IN Append(st.out,
                   CreateChunk(chunk_text, st.chunk_index, chunk_start,
                               Len(original_text), st.chunk_index > 0, FALSE))

ChunkingResponse(chunk_list, original_word_count) ==
    [kind |-> "return", error |-> "none", chunks |-> chunk_list,
     total_chunks |-> Len(chunk_list), original_word_count |-> original_word_count]
ChunkingRaise(e) ==
    [kind |-> "raise", error |-> e, chunks |-> <<>>, total_chunks |-> 0,
     original_word_count |-> 0]
NoChunking ==
    [kind |-> "none", error |-> "none", chunks |-> <<>>, total_chunks |-> 0,
     original_word_count |-> 0]

\* chunk_text without the test for empty input (mutant)
ChunkText_NoEmptyCheck(self, text) ==
    LET original_word_count == WordCount(text) IN
    IF original_word_count <= self.min_chunk_words
    THEN ChunkingResponse(
           <<CreateChunk(Strip(text), 0, 0, Len(text), FALSE, FALSE)>>,
           original_word_count)
    ELSE ChunkingResponse(
           CreateChunksFromSentences(self,
              IF self.respect_sentences THEN GetSentences(text) ELSE Split(text), text),
           original_word_count)

\* chunk_text with "<" for "<=" in the single-chunk test (mutant)
ChunkText_StrictLess(self, text) ==
    IF text = <<>> \/ Strip(text) = <<>> THEN ChunkingRaise("ChunkingError")
    ELSE LET original_word_count == WordCount(text) IN
         IF original_word_count < self.min_chunk_words
         THEN ChunkingResponse(
                <<CreateChunk(Strip(text), 0, 0, Len(text), FALSE, FALSE)>>,
                original_word_count)
         ELSE ChunkingResponse(
                CreateChunksFromSentences(self,
                   IF self.respect_sentences THEN GetSentences(text) ELSE Split(text),
                   text),
                original_word_count)

\* TextChunker.chunk_text
ChunkText(self, text) ==
    IF text = <<>> \/ Strip(text) = <<>> THEN ChunkingRaise("ChunkingError")
    ELSE LET original_word_count == WordCount(text) IN
         IF original_word_count <= self.min_chunk_words
         THEN ChunkingResponse(
                <<CreateChunk(Strip(text), 0, 0, Len(text), FALSE, FALSE)>>,
                original_word_count)
         ELSE ChunkingResponse(
                CreateChunksFromSentences(self,
                   IF self.respect_sentences THEN GetSentences(text) ELSE Split(text),
                   text),
                original_word_count)

\* a caller builds a TextChunker and calls chunk_text once
InitChunker ==
    /\ \E size \in 0..MaxChunkSize, overlap \in 0..MaxOverlap, respect \in BOOLEAN :
          chunker = TextChunkerInit(size, overlap, respect)
    /\ ck_text \in Texts(MaxTextLen)
    /\ ck_result = NoChunking
    /\ ck_text2 = <<>>
    /\ ck_result2 = NoChunking

CallChunkText ==
    /\ ck_result.kind = "none"
    /\ ck_result' = ChunkText(chunker, ck_text)
    /\ UNCHANGED <<chunker, ck_text, ck_text2, ck_result2>>

\* the same chunker is called again, after the first call, on ck_text2
CallChunkTextAgain ==
    /\ ck_result.kind # "none"
    /\ ck_result2.kind = "none"
    /\ ck_result2' = ChunkText(chunker, ck_text2)
    /\ UNCHANGED <<chunker, ck_text, ck_result, ck_text2>>

(***************************************************************************)
(* Candidate questions (the untrusted mappings the model emits).           *)
(*                                                                         *)
(* A string value is described by what the code reads of it:               *)
(*   len      its length, slen its length after strip()                    *)
(*   key      the identity of its lower-cased, stripped text (0: empty)    *)
(*   ends_q   strip() ends with "?"                                        *)
(*   negative a negative-phrasing pattern matches                          *)
(*   allnone  contains "all of the above" / "none of the above"            *)
(*   terms, found  its words of 4+ characters, and how many of them occur  *)
(*            in the source text it is validated against                   *)
(*   mentions the keys of the option texts it shares a word of more than   *)
(*            3 characters with                                            *)
(* A field that is absent, or holds a value that is no string, has type    *)
(* "absent" or "number"; a correctAnswer that is a JSON array has type     *)
(* "list".                                                                 *)
(***************************************************************************)
Str(len, slen, key) ==
    [type |-> "str", len |-> len, slen |-> slen, key |-> key, ends_q |-> FALSE,
     negative |-> FALSE, allnone |-> FALSE, terms |-> 1, found |-> 1,
     mentions |-> {}]
Absent ==
    [type |-> "absent", len |-> 0, slen |-> 0, key |-> 0, ends_q |-> FALSE,
     negative |-> FALSE, allnone |-> FALSE, terms |-> 0, found |-> 0,
     mentions |-> {}]
Number ==
    [type |-> "number", len |-> 0, slen |-> 0, key |-> 0, ends_q |-> FALSE,
     negative |-> FALSE, allnone |-> FALSE, terms |-> 0, found |-> 0,
     mentions |-> {}]

\* an option: a dict with optional "id" and "text", or a value that is no dict
Option(id, text) == [isdict |-> TRUE, id |-> id, text |-> text]
NonDictOption == [isdict |-> FALSE, id |-> "absent", text |-> Absent]

DifficultyLevel == {"easy", "medium", "hard"}
ExpectedIds == {"A", "B", "C", "D"}

RECURSIVE SumUpTo(_, _)
SumUpTo(xs, n) == IF n = 0 THEN 0 ELSE xs[n] + SumUpTo(xs, n - 1)
SumSeq(xs) == SumUpTo(xs, Len(xs))

\* QuestionValidator._validate_schema: [valid, score] (score in hundredths)
ValidateSchema(data) ==
    LET missing == Cardinality({f \in {"questionText", "options", "correctAnswer",
                                        "explanation"} : data[f].type = "absent"})
        score0 == 100 - 25 * missing
        \* data.get("options", [])
        options == IF data.options.type = "absent" THEN <<>> ELSE data.options.items
        n == Len(options)
        count_pen == IF n # 4 THEN 20 ELSE 0
        opt_pen(o) == IF ~o.isdict THEN 10
                      ELSE (IF o.id = "absent" THEN 5 ELSE 0)
                           + (IF o.text.type = "absent" THEN 5 ELSE 0)
        option_ids == {options[i].id : i \in {j \in 1..n : options[j].isdict
                                                    /\ options[j].id # "absent"}}
        ids_pen == IF option_ids # ExpectedIds THEN 10 ELSE 0
        \* data.get("correctAnswer", "")
        correct_pen == IF data.correctAnswer.type = "absent"
                          \/ data.correctAnswer.value \notin ExpectedIds
                       THEN 20 ELSE 0
        score == score0 - count_pen - SumSeq([i \in 1..n |-> opt_pen(options[i])])
                 - ids_pen - correct_pen
    IN IF score0 < 50 THEN [valid |-> FALSE, score |-> Max(0, score0)]
       ELSE IF data.options.type = "nonlist" THEN [valid |-> FALSE, score |-> 0]
       ELSE [valid |-> score >= 50 /\ missing = 0, score |-> Max(0, score)]

\* QuestionValidator._validate_schema raises: "correct not in expected_ids" on
\* a correctAnswer that is unhashable (a JSON array or object), when neither
\* early return was taken
SchemaRaises(data) ==
    /\ Cardinality({f \in {"questionText", "options", "correctAnswer",
                            "explanation"} : data[f].type = "absent"}) <= 2
    /\ data.options.type # "nonlist"
    /\ data.correctAnswer.type = "list"

\* the option texts the length stage measures
MeasuredOptions(data) ==
    LET options == IF data.options.type = "absent" THEN <<>> ELSE data.options.items
        measured == SelectSeq(options, LAMBDA o : o.isdict /\ o.text.type # "absent")
    IN [k \in 1..Len(measured) |-> measured[k].text]

\* QuestionValidator._validate_lengths raises: len() of a value that is no string
LengthsRaises(data) ==
    \/ data.questionText.type = "number"
    \/ \E k \in 1..Len(MeasuredOptions(data)) : MeasuredOptions(data)[k].type = "number"
    \/ data.explanation.type = "number"

\* _validate_lengths returning score instead of max(0, score) (mutant)
ValidateLengths_Unclamped(data) ==
    LET q_len == data.questionText.len
        q_pen == IF q_len < MIN_QUESTION_LENGTH THEN 30
                 ELSE IF q_len > MAX_QUESTION_LENGTH THEN 10 ELSE 0
        texts == MeasuredOptions(data)
        n == Len(texts)
        opt_pen(t) == IF t.len < MIN_OPTION_LENGTH THEN 10
                      ELSE IF t.len > MAX_OPTION_LENGTH THEN 5 ELSE 0
        total == SumSeq([k \in 1..n |-> texts[k].len])
        squares == SumSeq([k \in 1..n |-> texts[k].len * texts[k].len])
        \* variance = sum((l - avg)^2) / n > 2000
        var_pen == IF n > 0 /\ n * squares - total * total > VarianceThreshold * n * n
                   THEN 10 ELSE 0
        exp_pen == IF data.explanation.len < MIN_EXPLANATION_LENGTH THEN 20 ELSE 0
        score == 100 - q_pen - SumSeq([k \in 1..n |-> opt_pen(texts[k])])
                 - var_pen - exp_pen
    IN [valid |-> score >= 60, score |-> score, raw |-> score]

\* QuestionValidator._validate_lengths: [valid, score]
ValidateLengths(data) ==
    LET q_len == data.questionText.len
        q_pen == IF q_len < MIN_QUESTION_LENGTH THEN 30
                 ELSE IF q_len > MAX_QUESTION_LENGTH THEN 10 ELSE 0
        texts == MeasuredOptions(data)
        n == Len(texts)
        opt_pen(t) == IF t.len < MIN_OPTION_LENGTH THEN 10
                      ELSE IF t.len > MAX_OPTION_LENGTH THEN 5 ELSE 0
        total == SumSeq([k \in 1..n |-> texts[k].len])
        squares == SumSeq([k \in 1..n |-> texts[k].len * texts[k].len])
        \* variance = sum((l - avg)^2) / n > 2000
        var_pen == IF n > 0 /\ n * squares - total * total > VarianceThreshold * n * n
                   THEN 10 ELSE 0
        exp_pen == IF data.explanation.len < MIN_EXPLANATION_LENGTH THEN 20 ELSE 0
        score == 100 - q_pen - SumSeq([k \in 1..n |-> opt_pen(texts[k])])
                 - var_pen - exp_pen
    IN [valid |-> score >= 60, score |-> Max(0, score), raw |-> score]

\* next(opt for opt in options if isinstance(opt, dict) and opt.get("id") == correct)
CorrectOption(data) ==
    LET options == IF data.options.type = "absent" THEN <<>> ELSE data.options.items
        matching == SelectSeq(options,
                      LAMBDA o : o.isdict /\ o.id # "absent"
                                 /\ data.correctAnswer.type = "str"
                                 /\ o.id = data.correctAnswer.value)
    IN IF matching = <<>> THEN [found |-> FALSE, text |-> Absent]
       ELSE [found |-> TRUE, text |-> matching[1].text]

\* QuestionValidator._validate_quality: [valid, score]
ValidateQuality(data) ==
    LET options == IF data.options.type = "absent" THEN <<>> ELSE data.options.items
        n == Len(options)
        end_pen == IF ~data.questionText.ends_q THEN 10 ELSE 0
        allnone_pen == IF \E i \in 1..n : options[i].isdict /\ options[i].text.allnone
                       THEN 15 ELSE 0
        neg_pen == IF data.questionText.negative THEN 5 ELSE 0
        dicts == SelectSeq(options, LAMBDA o : o.isdict)
        \* opt.get("text", "").lower().strip()
        keys == {dicts[k].text.key : k \in 1..Len(dicts)}
        dup_pen == IF Len(dicts) # Cardinality(keys) THEN 30 ELSE 0
        correct == CorrectOption(data)
        \* if correct_answer: if correct_option:
        exp_pen == IF /\ data.correctAnswer.type = "str"
                      /\ data.correctAnswer.value # ""
                      /\ correct.found
                      /\ correct.text.key \notin data.explanation.mentions
                   THEN 10 ELSE 0
        score == 100 - end_pen - allnone_pen - neg_pen - dup_pen - exp_pen
    IN [valid |-> score >= 50, score |-> Max(0, score)]

\* _validate_semantic taking 0.4 for an ungrounded question (mutant)
ValidateSemantic_Heavier(data, has_source) ==
    LET q == data.questionText
        \* term_coverage = found / terms if terms else 0;  < 0.3
        q_pen == IF q.terms = 0 \/ 10 * q.found < 3 * q.terms THEN 40 ELSE 0
        correct == CorrectOption(data)
        \* correct_coverage < 0.2
        c_pen == IF correct.found
                    /\ (correct.text.terms = 0
                        \/ 10 * correct.text.found < 2 * correct.text.terms)
                 THEN 15 ELSE 0
        score == 100 - q_pen - c_pen
    IN IF ~has_source THEN [valid |-> TRUE, score |-> 100]
       ELSE [valid |-> score >= 50, score |-> Max(0, score)]

\* QuestionValidator._validate_semantic: [valid, score]
ValidateSemantic(data, has_source) ==
    LET q == data.questionText
        \* term_coverage = found / terms if terms else 0;  < 0.3
        q_pen == IF q.terms = 0 \/ 10 * q.found < 3 * q.terms THEN 20 ELSE 0
        correct == CorrectOption(data)
        \* correct_coverage < 0.2
        c_pen == IF correct.found
                    /\ (correct.text.terms = 0
                        \/ 10 * correct.text.found < 2 * correct.text.terms)
                 THEN 15 ELSE 0
        score == 100 - q_pen - c_pen
    IN IF ~has_source THEN [valid |-> TRUE, score |-> 100]
       ELSE [valid |-> score >= 50, score |-> Max(0, score)]

(***************************************************************************)
(* GeneratedQuestion (models/question.py): construction checks the Field   *)
(* constraints, then QuestionOption.clean_text strips each option text.    *)
(***************************************************************************)
NoQuestion == [present |-> FALSE]

\* QuestionOption(id=..., text=...): the constraints, then clean_text
OptionAccepted(o) ==
    /\ o.isdict
    /\ o.id \in ExpectedIds
    /\ o.text.type = "str"
    /\ o.text.len >= ModelMinOptionLength
    /\ o.text.len <= ModelMaxOptionLength
CleanText(t) == [t EXCEPT !.len = t.slen]

\* GeneratedQuestion without the validator validate_option_ids (mutant)
GeneratedQuestion_AnyIds(question_text, options, correct_answer, explanation, difficulty, quality_score, validation_passed) ==
    IF /\ question_text.type = "str"
       /\ question_text.len >= ModelMinQuestionLength
       /\ question_text.len <= ModelMaxQuestionLength
       /\ Len(options) = 4
       /\ \A i \in 1..Len(options) : OptionAccepted(options[i])
       /\ correct_answer.type = "str"
       /\ correct_answer.value \in ExpectedIds
       /\ explanation.type = "str"
       /\ explanation.len >= ModelMinExplanationLength
       /\ explanation.len <= ModelMaxExplanationLength
       /\ difficulty \in DifficultyLevel
       /\ quality_score >= 0
       /\ quality_score <= 10000
    THEN [present |-> TRUE,
          question_text |-> question_text,
          options |-> [i \in 1..4 |-> [id |-> options[i].id,
                                       text |-> CleanText(options[i].text)]],
          correct_answer |-> correct_answer.value,
          explanation |-> explanation,
          difficulty |-> difficulty,
          quality_score |-> quality_score,
          validation_passed |-> validation_passed]
    ELSE NoQuestion

\* GeneratedQuestion(**fields): the question, or NoQuestion when pydantic rejects it
GeneratedQuestion(question_text, options, correct_answer, explanation, difficulty, quality_score, validation_passed) ==
    IF /\ question_text.type = "str"
       /\ question_text.len >= ModelMinQuestionLength
       /\ question_text.len <= ModelMaxQuestionLength
       /\ Len(options) = 4
       /\ \A i \in 1..Len(options) : OptionAccepted(options[i])
       /\ {options[i].id : i \in 1..Len(options)} = ExpectedIds
       /\ correct_answer.type = "str"
       /\ correct_answer.value \in ExpectedIds
       /\ explanation.type = "str"
       /\ explanation.len >= ModelMinExplanationLength
       /\ explanation.len <= ModelMaxExplanationLength
       /\ difficulty \in DifficultyLevel
       /\ quality_score >= 0
       /\ quality_score <= 10000
    THEN [present |-> TRUE,
          question_text |-> question_text,
          options |-> [i \in 1..4 |-> [id |-> options[i].id,
                                       text |-> CleanText(options[i].text)]],
          correct_answer |-> correct_answer.value,
          explanation |-> explanation,
          difficulty |-> difficulty,
          quality_score |-> quality_score,
          validation_passed |-> validation_passed]
    ELSE NoQuestion

\* the try block of validate entered only when is_valid holds (mutant)
BuildQuestion_WhenValid(data, difficulty, overall_score, is_valid) ==
    LET options == data.options.items
        q_difficulty == IF difficulty # "none" THEN difficulty
                        ELSE IF data.difficulty.type = "absent" THEN "medium"
                        ELSE data.difficulty.value
    IN IF ~is_valid THEN NoQuestion
       ELSE IF \E i \in 1..Len(options) :
             \/ ~options[i].isdict
             \/ options[i].id = "absent"
             \/ options[i].text.type = "absent"
       THEN NoQuestion
       ELSE GeneratedQuestion(data.questionText,
               [i \in 1..Len(options) |-> [isdict |-> TRUE, id |-> options[i].id,
                                           text |-> options[i].text]],
               data.correctAnswer, data.explanation, q_difficulty,
               overall_score, is_valid)

\* the try block of validate: building the GeneratedQuestion from the candidate;
\* opt["id"] / opt["text"] raise for an option without them (caught by validate)
BuildQuestion(data, difficulty, overall_score, is_valid) ==
    LET options == data.options.items
        q_difficulty == IF difficulty # "none" THEN difficulty
                        ELSE IF data.difficulty.type = "absent" THEN "medium"
                        ELSE data.difficulty.value
    IN IF \E i \in 1..Len(options) :
             \/ ~options[i].isdict
             \/ options[i].id = "absent"
             \/ options[i].text.type = "absent"
       THEN NoQuestion
       ELSE GeneratedQuestion(data.questionText,
               [i \in 1..Len(options) |-> [isdict |-> TRUE, id |-> options[i].id,
                                           text |-> options[i].text]],
               data.correctAnswer, data.explanation, q_difficulty,
               overall_score, is_valid)

ValidationRaise(e) ==
    [kind |-> "raise", error |-> e, is_valid |-> FALSE, quality_score |-> 0,
     stage_results |-> <<>>, stage_scores |-> <<>>, issues |-> <<>>,
     question |-> NoQuestion]

\* the issues list without the entry of the except clause (mutant)
Issues_StagesOnly(schema, length, quality, semantic, question) ==
    SelectSeq(<<[stage |-> "schema", score |-> schema],
                [stage |-> "length", score |-> length],
                [stage |-> "quality", score |-> quality],
                [stage |-> "semantic", score |-> semantic]>>,
              LAMBDA e : e.score < 100)

\* the issues list of validate, as the parts that appended to it, in order:
\* a stage appends an issue with every penalty it subtracts, so it has issues
\* exactly when its score is below 1.0; the except clause of the construction
\* appends "Model creation failed: ..." after them
Issues(schema, length, quality, semantic, question) ==
    SelectSeq(<<[stage |-> "schema", score |-> schema],
                [stage |-> "length", score |-> length],
                [stage |-> "quality", score |-> quality],
                [stage |-> "semantic", score |-> semantic]>>,
              LAMBDA e : e.score < 100)
    \o (IF question.present THEN <<>> ELSE <<[stage |-> "model", score |-> 0]>>)

\* the weighted sum with every weight 0.25 (mutant)
OverallScore_Unweighted(schema, length, quality, semantic) ==
    25 * schema + 25 * length + 25 * quality + 25 * semantic

\* sum(stage_scores[stage] * WEIGHTS[stage] for stage in WEIGHTS), in
\* ten-thousandths, of stage scores in hundredths
OverallScore(schema, length, quality, semantic) ==
    20 * schema + 20 * length + 35 * quality + 25 * semantic

\* validate without "is_valid = False" in its except clause (mutant)
Validate_NoRollback(data, difficulty, has_source) ==
    \* "field not in data" on a value that is no container
    IF data.kind = "number" THEN ValidationRaise("TypeError")
    ELSE IF SchemaRaises(data) THEN ValidationRaise("TypeError")
    ELSE
    LET schema == ValidateSchema(data) IN
    IF ~schema.valid
    THEN [kind |-> "return", error |-> "none", is_valid |-> FALSE,
          quality_score |-> 0, stage_results |-> [schema |-> FALSE],
          stage_scores |-> [schema |-> schema.score],
          issues |-> <<"schema">>,
          question |-> NoQuestion]
    ELSE IF LengthsRaises(data) THEN ValidationRaise("TypeError")
    ELSE
    LET length == ValidateLengths(data)
        quality == ValidateQuality(data)
        semantic == ValidateSemantic(data, has_source)
        overall_score == OverallScore(schema.score, length.score, quality.score,
                                      semantic.score)
        is_valid == /\ overall_score >= MinQualityScore * 100
                    /\ schema.valid
                    /\ (length.valid \/ length.score >= 50)
        question == BuildQuestion(data, difficulty, overall_score, is_valid)
    IN [kind |-> "return", error |-> "none",
        is_valid |-> is_valid,
        quality_score |-> overall_score,
        stage_results |-> [schema |-> schema.valid, length |-> length.valid,
                           quality |-> quality.valid, semantic |-> semantic.valid],
        stage_scores |-> [schema |-> schema.score, length |-> length.score,
                          quality |-> quality.score, semantic |-> semantic.score],
        issues |-> Issues(schema.score, length.score, quality.score,
                          semantic.score, question),
        question |-> question]

\* QuestionValidator.validate(question_data, difficulty, source_text):
\* the (QuestionValidationResult, GeneratedQuestion | None) pair, or the error
\* it raises. quality_score is in ten-thousandths.
Validate(data, difficulty, has_source) ==
    \* "field not in data" on a value that is no container
    IF data.kind = "number" THEN ValidationRaise("TypeError")
    ELSE IF SchemaRaises(data) THEN ValidationRaise("TypeError")
    ELSE
    LET schema == ValidateSchema(data) IN
    IF ~schema.valid
    THEN [kind |-> "return", error |-> "none", is_valid |-> FALSE,
          quality_score |-> 0, stage_results |-> [schema |-> FALSE],
          stage_scores |-> [schema |-> schema.score],
          issues |-> <<"schema">>,
          question |-> NoQuestion]
    ELSE IF LengthsRaises(data) THEN ValidationRaise("TypeError")
    ELSE
    LET length == ValidateLengths(data)
        quality == ValidateQuality(data)
        semantic == ValidateSemantic(data, has_source)
        overall_score == OverallScore(schema.score, length.score, quality.score,
                                      semantic.score)
        is_valid == /\ overall_score >= MinQualityScore * 100
                    /\ schema.valid
                    /\ (length.valid \/ length.score >= 50)
        question == BuildQuestion(data, difficulty, overall_score, is_valid)
    IN [kind |-> "return", error |-> "none",
        is_valid |-> is_valid /\ question.present,
        quality_score |-> overall_score,
        stage_results |-> [schema |-> schema.valid, length |-> length.valid,
                           quality |-> quality.valid, semantic |-> semantic.valid],
        stage_scores |-> [schema |-> schema.score, length |-> length.score,
                          quality |-> quality.score, semantic |-> semantic.score],
        issues |-> Issues(schema.score, length.score, quality.score,
                          semantic.score, question),
        question |-> question]

(***************************************************************************)
(* The candidates and replies the generation endpoint is made to produce.  *)
(***************************************************************************)
\* the JSON values the model's text output can decode to: an object whose
\* "questions" entry is a list of candidates, is absent or is a number, or a
\* JSON array
ObjectReply(items) ==
    [type |-> "object", questions |-> [type |-> "list", items |-> items]]
ObjectWithoutQuestions ==
    [type |-> "object", questions |-> [type |-> "absent", items |-> <<>>]]
ObjectWithNumber ==
    [type |-> "object", questions |-> [type |-> "number", items |-> <<>>]]
ArrayReply ==
    [type |-> "array", questions |-> [type |-> "absent", items |-> <<>>]]

Candidate(q, opts, correct, expl) ==
    [kind |-> "dict", questionText |-> q,
     options |-> [type |-> "list", items |-> opts],
     correctAnswer |-> [type |-> "str", value |-> correct],
     explanation |-> expl,
     difficulty |-> [type |-> "absent", value |-> "none"]]

GoodText == [Str(40, 40, 9) EXCEPT !.ends_q = TRUE]
GoodExplanation == [Str(60, 60, 8) EXCEPT !.mentions = {1}]
GoodOptions ==
    <<Option("A", Str(12, 12, 1)), Option("B", Str(12, 12, 2)),
      Option("C", Str(12, 12, 3)), Option("D", Str(12, 12, 4))>>

\* a well-formed question grounded in its source
GoodCandidate == Candidate(GoodText, GoodOptions, "A", GoodExplanation)
\* the same with an option text of two blanks
BlankOptionCandidate ==
    Candidate(GoodText, [GoodOptions EXCEPT ![4] = Option("D", Str(2, 0, 0))], "A",
              GoodExplanation)
\* well-formed but over-long question and options and a short explanation
WeakCandidate ==
    Candidate([Str(600, 600, 9) EXCEPT !.ends_q = TRUE],
              <<Option("A", Str(201, 201, 1)), Option("B", Str(201, 201, 2)),
                Option("C", Str(201, 201, 3)), Option("D", Str(500, 500, 4))>>,
              "A", [Str(15, 15, 8) EXCEPT !.mentions = {1}])
\* no "explanation"
MissingFieldCandidate == Candidate(GoodText, GoodOptions, "A", Absent)
\* a JSON number in the place of a question object
NumberCandidate ==
    [kind |-> "number", questionText |-> Absent,
     options |-> [type |-> "absent", items |-> <<>>],
     correctAnswer |-> [type |-> "absent", value |-> "none"],
     explanation |-> Absent,
     difficulty |-> [type |-> "absent", value |-> "none"]]

LLMReplies ==
    {ObjectReply(<<>>),
     ObjectReply(<<GoodCandidate>>),
     ObjectReply(<<GoodCandidate, GoodCandidate>>),
     ObjectReply(<<BlankOptionCandidate>>),
     ObjectReply(<<WeakCandidate, GoodCandidate>>),
     ObjectReply(<<MissingFieldCandidate>>),
     ObjectReply(<<GoodCandidate, NumberCandidate>>),
     ObjectWithoutQuestions, ObjectWithNumber, ArrayReply}

(***************************************************************************)
(* QuestionValidator.validate on one candidate.                            *)
(***************************************************************************)
NoValidation ==
    [kind |-> "none", error |-> "none", is_valid |-> FALSE, quality_score |-> 0,
     stage_results |-> <<>>, stage_scores |-> <<>>, issues |-> <<>>,
     question |-> NoQuestion]

\* no validator call is modelled
IdleValidator ==
    /\ vq_data = NumberCandidate
    /\ vq_difficulty = "none"
    /\ vq_source = FALSE
    /\ vq_result = NoValidation

CallValidate ==
    /\ vq_result.kind = "none"
    /\ vq_result' = Validate(vq_data, vq_difficulty, vq_source)
    /\ UNCHANGED <<vq_data, vq_difficulty, vq_source>>

(***************************************************************************)
(* Generation endpoint: what one POST /api/generate can do.                *)
(***************************************************************************)
\* transport: the outcome of client.post + raise_for_status;
\* body: the HTTP body when the transport succeeded;
\* text: the body's "response" field when the body is a JSON object
EndpointBehaviours(values) ==
       [transport : {"timeout", "connect_error", "http_status_error",
                     "other_transport_error"},
        body : {"none"}, text : {"none"}, value : {"none"}]
  \cup [transport : {"ok"}, body : {"not_json", "json_non_object"},
        text : {"none"}, value : {"none"}]
  \cup [transport : {"ok"}, body : {"json_object"},
        text : {"empty", "not_json"}, value : {"none"}]
  \cup [transport : {"ok"}, body : {"json_object"},
        text : {"json"}, value : values]

Return(v) == [kind |-> "return", error |-> "none", value |-> v]
Raise(e)  == [kind |-> "raise", error |-> e, value |-> "none"]
NoResult  == [kind |-> "none", error |-> "none", value |-> "none"]

\* _execute_request reporting a body that is no JSON as LLMResponseError
\* (mutant)
ExecuteRequest_BodyAsResponseError(format, resp) ==
    IF resp.transport = "timeout" THEN Raise("LLMTimeoutError")
    ELSE IF resp.transport = "connect_error" THEN Raise("LLMConnectionError")
    ELSE IF resp.transport = "http_status_error" THEN Raise("LLMResponseError")
    ELSE IF resp.transport = "other_transport_error" THEN Raise("httpx.HTTPError")
    ELSE IF resp.body = "not_json" THEN Raise("LLMResponseError")
    ELSE IF resp.body = "json_non_object" THEN Raise("AttributeError")
    ELSE IF resp.text = "empty" THEN Raise("LLMResponseError")
    ELSE IF format = "json"
         THEN IF resp.text = "not_json" THEN Raise("JSONParseError")
              ELSE Return([response |-> resp.value, raw |-> resp.text])
         ELSE Return([response |-> "text", raw |-> resp.text])

\* OllamaClient._execute_request: one request, its result or the error raised
ExecuteRequest(format, resp) ==
    IF resp.transport = "timeout" THEN Raise("LLMTimeoutError")
    ELSE IF resp.transport = "connect_error" THEN Raise("LLMConnectionError")
    ELSE IF resp.transport = "http_status_error" THEN Raise("LLMResponseError")
    \* any other httpx error is not caught by _execute_request
    ELSE IF resp.transport = "other_transport_error" THEN Raise("httpx.HTTPError")
    \* response.json()
    ELSE IF resp.body = "not_json" THEN Raise("JSONParseError")
    \* data.get on a JSON value that is no object
    ELSE IF resp.body = "json_non_object" THEN Raise("AttributeError")
    \* if not response_text
    ELSE IF resp.text = "empty" THEN Raise("LLMResponseError")
    ELSE IF format = "json"
         THEN IF resp.text = "not_json" THEN Raise("JSONParseError")
              ELSE Return([response |-> resp.value, raw |-> resp.text])
         ELSE Return([response |-> "text", raw |-> resp.text])

\* a handler that also catches the response errors (mutant of Retried)
Retried_WithResponseErrors ==
    {"LLMTimeoutError", "LLMConnectionError", "LLMResponseError", "JSONParseError"}

\* except (LLMTimeoutError, LLMConnectionError)
Retried == {"LLMTimeoutError", "LLMConnectionError"}

\* a schedule that starts with the final 0 (mutant of Schedule)
Schedule_Shifted == <<0>> \o RETRY_DELAYS

\* self.RETRY_DELAYS + [0]
Schedule == RETRY_DELAYS \o <<0>>

\* entries of client_log: attempt n with the endpoint's behaviour and the
\* outcome of _execute_request, or the sleep started after attempt n
AttemptEvent(k, resp, out) ==
    [ev |-> "attempt", n |-> k, delay |-> 0, resp |-> resp, kind |-> out.kind,
     error |-> out.error]
NoResp == [transport |-> "none", body |-> "none", text |-> "none", value |-> "none"]
SleepEvent(k, d) ==
    [ev |-> "sleep", n |-> k, delay |-> d, resp |-> NoResp, kind |-> "none",
     error |-> "none"]

\* OllamaClient.generate up to the first _execute_request
StartGenerate(format) ==
    /\ cpc' = "attempting"
    /\ attempt' = 1
    /\ last_error' = "none"
    /\ payload_format' = format
    /\ client_result' = NoResult
    /\ client_log' = <<>>
    /\ calls' = calls + 1

\* one iteration of the loop of _execute_with_retry: the request and, when it
\* fails with a retried error, the handler up to the await of asyncio.sleep
Attempt(resp) ==
    /\ cpc = "attempting"
    /\ LET out == ExecuteRequest(payload_format, resp) IN
       IF out.kind = "return"
       THEN /\ cpc' = "returned"
            /\ client_result' = out
            /\ client_log' = Append(client_log, AttemptEvent(attempt, resp, out))
            /\ UNCHANGED <<attempt, last_error>>
       ELSE IF out.error \in Retried
       THEN /\ last_error' = out.error
            /\ IF attempt < Len(RETRY_DELAYS) + 1
               THEN /\ cpc' = "sleeping"
                    /\ client_log' = client_log \o
                         <<AttemptEvent(attempt, resp, out),
                           SleepEvent(attempt, Schedule[attempt])>>
                    /\ UNCHANGED <<attempt, client_result>>
               ELSE \* the loop is exhausted: raise last_error
                    /\ cpc' = "raised"
                    /\ client_result' = Raise(out.error)
                    /\ client_log' = Append(client_log, AttemptEvent(attempt, resp, out))
                    /\ UNCHANGED attempt
       ELSE \* not caught by _execute_with_retry
            /\ cpc' = "raised"
            /\ client_result' = out
            /\ client_log' = Append(client_log, AttemptEvent(attempt, resp, out))
            /\ UNCHANGED <<attempt, last_error>>
    /\ UNCHANGED <<payload_format, calls>>

\* asyncio.sleep(delay) returns: the loop takes its next iteration
SleepDone ==
    /\ cpc = "sleeping"
    /\ cpc' = "attempting"
    /\ attempt' = attempt + 1
    /\ UNCHANGED <<last_error, payload_format, client_result, client_log, calls>>

(***************************************************************************)
(* The question cache (utils/cache.py) on a Redis store.                   *)
(***************************************************************************)
Nil == [present |-> FALSE]

\* RedisCache.get_question_cache_key: "nlp:" + "questions:v1:{hash}:{difficulty}"
GetQuestionCacheKey(chunk_text, difficulty) ==
    <<"nlp:questions:v1", HashText(chunk_text), difficulty>>
CacheKeys == {<<"nlp:questions:v1", h, d>> : h \in 0..(HashSpace - 1), d \in DifficultyLevel}

\* q.model_dump(by_alias=True, mode="json")
ModelDump(q) ==
    [questionText |-> q.question_text, options |-> q.options,
     correctAnswer |-> q.correct_answer, explanation |-> q.explanation,
     difficulty |-> q.difficulty, qualityScore |-> q.quality_score,
     validationPassed |-> q.validation_passed]

\* GeneratedQuestion(**q_data) on a dumped question
LoadQuestion(d) ==
    GeneratedQuestion(d.questionText,
        [i \in 1..Len(d.options) |-> [isdict |-> TRUE, id |-> d.options[i].id,
                                      text |-> d.options[i].text]],
        [type |-> "str", value |-> d.correctAnswer], d.explanation, d.difficulty,
        d.qualityScore, d.validationPassed)

\* the questions that do not load are kept in the list (mutant)
GetFromCache_KeepUnloadable(store, chunk, difficulty, read_fault) ==
    LET cached_data == IF read_fault THEN Nil
                       ELSE store[GetQuestionCacheKey(chunk.text, difficulty)]
    IN IF ~cached_data.present THEN <<>>
       ELSE [i \in 1..Len(cached_data.questions) |->
                LoadQuestion(cached_data.questions[i])]

\* QuestionGenerator._get_from_cache: the questions, <<>> for None.
\* read_fault: the store fails the read (RedisCache.get logs it and returns None)
GetFromCache(store, chunk, difficulty, read_fault) ==
    LET cached_data == IF read_fault THEN Nil
                       ELSE store[GetQuestionCacheKey(chunk.text, difficulty)]
    IN IF ~cached_data.present THEN <<>>
       ELSE LET loaded == [i \in 1..Len(cached_data.questions) |->
                              LoadQuestion(cached_data.questions[i])]
            IN SelectSeq(loaded, LAMBDA q : q.present)

\* QuestionGenerator._save_to_cache: the store afterwards.
\* write_fault: the store fails the write (RedisCache.set returns False)
SaveToCache(store, chunk, difficulty, questions, write_fault) ==
    IF write_fault THEN store
    ELSE [store EXCEPT ![GetQuestionCacheKey(chunk.text, difficulty)] =
            [present |-> TRUE,
             questions |-> [i \in 1..Len(questions) |-> ModelDump(questions[i])],
             chunk_hash |-> chunk.hash, difficulty |-> difficulty]]

(***************************************************************************)
(* QuestionGenerator                                                       *)
(***************************************************************************)
\* the handler counts the candidates validated so far (mutant)
ChunkFailed_Counting(n) == [questions |-> <<>>, generated |-> n, validate_calls |-> n]

\* except Exception: return [], 0; n validate calls were made before it
ChunkFailed(n) == [questions |-> <<>>, generated |-> 0, validate_calls |-> n]

\* the index of the first candidate on which validate raises, 0 if none
FirstRaising(results) ==
    LET raising == {i \in 1..Len(results) : results[i].kind = "raise"} IN
    IF raising = {} THEN 0 ELSE CHOOSE i \in raising : \A j \in raising : i <= j

\* the replies in Spec: one accepted question; two candidates, one discarded;
\* a question with a blank option; a candidate the validator raises on; a
\* reply that is no object
GenReplies ==
    {ObjectReply(<<GoodCandidate>>),
     ObjectReply(<<WeakCandidate, GoodCandidate>>),
     ObjectReply(<<BlankOptionCandidate>>),
     ObjectReply(<<GoodCandidate, NumberCandidate>>),
     ArrayReply}

\* validate on the candidates of these replies, worked out once
KnownCandidates ==
    UNION {{r.questions.items[i] : i \in 1..Len(r.questions.items)} : r \in GenReplies}
ValidateKnown ==
    [c \in KnownCandidates, d \in DifficultyLevel |-> Validate(c, d, TRUE)]

\* validator.validate on each candidate in turn
ValidateAll(items, difficulty, has_source) ==
    [i \in 1..Len(items) |->
        IF has_source /\ items[i] \in KnownCandidates
        THEN ValidateKnown[items[i], difficulty]
        ELSE Validate(items[i], difficulty, has_source)]

\* the accepted questions: is_valid and validated_question
Accept(valid) == [i \in 1..Len(valid) |-> valid[i].question]

\* every candidate a question was built from is accepted (mutant)
ValidatedChunk_AnyBuilt(results) ==
    IF FirstRaising(results) # 0 THEN ChunkFailed(FirstRaising(results))
    ELSE [questions |-> Accept(SelectSeq(results,
                                LAMBDA r : r.question.present)),
          generated |-> Len(results),
          validate_calls |-> Len(results)]

\* the for loop of _generate_for_chunk over the candidates, from the results
\* of validate
ValidatedChunk(results) ==
    IF FirstRaising(results) # 0 THEN ChunkFailed(FirstRaising(results))
    ELSE [questions |-> Accept(SelectSeq(results,
                                LAMBDA r : r.is_valid /\ r.question.present)),
          generated |-> Len(results),
          validate_calls |-> Len(results)]

\* QuestionGenerator._generate_for_chunk after the client's call has ended
\* with `result`: (valid_questions, total_generated), and the number of
\* validate calls made
GenerateForChunk(result, chunk, difficulty) ==
    IF result.kind = "raise" THEN ChunkFailed(0)
    \* response_data.get on a list
    ELSE IF result.value.response.type = "array" THEN ChunkFailed(0)
    \* response_data.get("questions", []); if not questions_data
    ELSE IF \/ result.value.response.questions.type = "absent"
            \/ /\ result.value.response.questions.type = "list"
               /\ result.value.response.questions.items = <<>>
    THEN [questions |-> <<>>, generated |-> 0, validate_calls |-> 0]
    \* for q_data in <a number>
    ELSE IF result.value.response.questions.type = "number" THEN ChunkFailed(0)
    ELSE ValidatedChunk(ValidateAll(result.value.response.questions.items,
                                    difficulty, chunk.text # <<>>))

\* if request.use_cache: cached = ...; if cached:
ServeFromCache(use_cache, cached) == use_cache /\ cached # <<>>

\* every chunk is asked for the whole count (mutant)
QuestionsPerChunk_Whole(count, chunk_list) == count

\* max(1, request.count // len(chunks)) if chunks else request.count
QuestionsPerChunk(count, chunk_list) ==
    IF chunk_list # <<>> THEN Max(1, count \div Len(chunk_list)) ELSE count

\* no truncation (mutant)
Truncate_None(questions, count) == questions

\* all_questions[:request.count] when it is longer
Truncate(questions, count) ==
    IF Len(questions) > count THEN SubSeq(questions, 1, count) ELSE questions

NoRequest == [text |-> <<>>, difficulty |-> "medium", count |-> 1, use_cache |-> FALSE]
NoResponse == [present |-> FALSE]

\* entry of chunk_log for the chunk at position i
LogEntry(i, looked_up, cache_data, cached, client_calls, asked) ==
    [position |-> i, looked_up |-> looked_up, cache_data |-> cache_data,
     cached |-> cached,
     client_calls |-> client_calls, asked |-> asked,
     client_raised |-> FALSE, llm_candidates |-> 0, validator_raised |-> FALSE,
     validate_calls |-> 0, cache_sets |-> 0, generated |-> 0, questions |-> <<>>]

\* the candidates the model returned in a reply, as the caller of the client sees it
CandidatesOf(result) ==
    IF /\ result.kind = "return"
       /\ result.value.response.type = "object"
       /\ result.value.response.questions.type = "list"
    THEN result.value.response.questions.items ELSE <<>>

\* QuestionGenerator.generate up to the loop over the chunks
Generate(req) ==
    /\ gpc \in {"idle", "done", "failed"}
    /\ requests < MaxRequests
    /\ requests' = requests + 1
    /\ request' = req
    /\ chunk_log' = <<>>
    /\ response' = NoResponse
    /\ LET chunking_result == ChunkText(chunker, req.text) IN
       IF chunking_result.kind = "raise"
       THEN /\ gpc' = "failed"
            /\ chunks' = <<>>
            /\ questions_per_chunk' = 0
       ELSE /\ gpc' = "loop"
            /\ chunks' = chunking_result.chunks
            /\ questions_per_chunk' = QuestionsPerChunk(req.count, chunking_result.chunks)
    /\ idx' = 1
    /\ all_questions' = <<>>
    /\ total_generated' = 0
    /\ from_cache' = FALSE
    /\ calls' = 0
    /\ UNCHANGED <<cpc, attempt, last_error, payload_format, client_result,
                   client_log, chunker_vars, validator_vars, redis>>

\* cache.get_questions(chunk.text, difficulty) returned an entry
CacheData(store, chunk, difficulty, read_fault) ==
    ~read_fault /\ store[GetQuestionCacheKey(chunk.text, difficulty)].present

\* the miss branch: _generate_for_chunk up to the await of the client's
\* first request
TakeMiss(cached, cache_data) ==
    /\ StartGenerate("json")
    /\ gpc' = "await"
    /\ chunk_log' = Append(chunk_log,
          LogEntry(idx, request.use_cache, cache_data, cached, 1, questions_per_chunk))
    /\ UNCHANGED <<all_questions, total_generated, from_cache, idx>>

\* the cached branch goes on to ask the client (mutant)
TakeCached_AndGenerate(cached, cache_data) == TakeMiss(cached, cache_data)

\* the cached branch leaves from_cache as it is (mutant)
TakeCached_NoFlag(cached, cache_data) ==
    /\ all_questions' = all_questions \o cached
    /\ total_generated' = total_generated + Len(cached)
    /\ idx' = idx + 1
    /\ chunk_log' = Append(chunk_log,
          [LogEntry(idx, request.use_cache, cache_data, cached, 0, 0)
              EXCEPT !.generated = Len(cached), !.questions = cached])
    /\ UNCHANGED <<from_cache, gpc, client_vars>>

\* the cached branch: extend, count, flag, continue
TakeCached(cached, cache_data) ==
    /\ all_questions' = all_questions \o cached
    /\ total_generated' = total_generated + Len(cached)
    /\ from_cache' = TRUE
    /\ idx' = idx + 1
    /\ chunk_log' = Append(chunk_log,
          [LogEntry(idx, request.use_cache, cache_data, cached, 0, 0)
              EXCEPT !.generated = Len(cached), !.questions = cached])
    /\ UNCHANGED <<gpc, client_vars>>

\* one iteration of the loop up to "continue" (cache hit) or up to the await
\* of the client's first request (cache miss)
ProcessChunk(read_fault) ==
    /\ gpc = "loop"
    /\ idx <= Len(chunks)
    /\ LET chunk == chunks[idx]
           cached == IF request.use_cache
                     THEN GetFromCache(redis, chunk, request.difficulty, read_fault)
                     ELSE <<>>
           cache_data == /\ request.use_cache
                         /\ CacheData(redis, chunk, request.difficulty, read_fault)
       IN IF ServeFromCache(request.use_cache, cached)
          THEN TakeCached(cached, cache_data)
          ELSE TakeMiss(cached, cache_data)
    /\ UNCHANGED <<request, chunks, questions_per_chunk, response, redis, requests,
                   chunker_vars, validator_vars>>

\* the questions of a chunk are put before those of the earlier chunks (mutant)
EndChunk_Prepend(r, write_fault) ==
    /\ total_generated' = total_generated + r.generated
    /\ all_questions' = r.questions \o all_questions
    /\ redis' = IF r.questions # <<>> /\ request.use_cache
                THEN SaveToCache(redis, chunks[idx], request.difficulty, r.questions,
                                 write_fault)
                ELSE redis
    /\ chunk_log' = [chunk_log EXCEPT ![Len(chunk_log)] =
          [@ EXCEPT !.client_raised = (cpc = "raised"),
                    !.llm_candidates = Len(CandidatesOf(client_result)),
                    !.validator_raised =
                        \E i \in 1..Len(CandidatesOf(client_result)) :
                           ValidateAll(CandidatesOf(client_result),
                                       request.difficulty, TRUE)[i].kind = "raise",
                    !.validate_calls = r.validate_calls,
                    !.cache_sets = IF r.questions # <<>> /\ request.use_cache
                                   THEN 1 ELSE 0,
                    !.generated = r.generated,
                    !.questions = r.questions]]

\* the cache is written whatever the chunk yielded (mutant)
EndChunk_AlwaysSave(r, write_fault) ==
    /\ total_generated' = total_generated + r.generated
    /\ all_questions' = all_questions \o r.questions
    /\ redis' = IF request.use_cache
                THEN SaveToCache(redis, chunks[idx], request.difficulty, r.questions,
                                 write_fault)
                ELSE redis
    /\ chunk_log' = [chunk_log EXCEPT ![Len(chunk_log)] =
          [@ EXCEPT !.client_raised = (cpc = "raised"),
                    !.llm_candidates = Len(CandidatesOf(client_result)),
                    !.validator_raised =
                        \E i \in 1..Len(CandidatesOf(client_result)) :
                           ValidateAll(CandidatesOf(client_result),
                                       request.difficulty, TRUE)[i].kind = "raise",
                    !.validate_calls = r.validate_calls,
                    !.cache_sets = IF request.use_cache
                                   THEN 1 ELSE 0,
                    !.generated = r.generated,
                    !.questions = r.questions]]

\* the cache is written whether or not the request uses it (mutant)
EndChunk_SaveUncached(r, write_fault) ==
    /\ total_generated' = total_generated + r.generated
    /\ all_questions' = all_questions \o r.questions
    /\ redis' = IF r.questions # <<>>
                THEN SaveToCache(redis, chunks[idx], request.difficulty, r.questions,
                                 write_fault)
                ELSE redis
    /\ chunk_log' = [chunk_log EXCEPT ![Len(chunk_log)] =
          [@ EXCEPT !.client_raised = (cpc = "raised"),
                    !.llm_candidates = Len(CandidatesOf(client_result)),
                    !.validator_raised =
                        \E i \in 1..Len(CandidatesOf(client_result)) :
                           ValidateAll(CandidatesOf(client_result),
                                       request.difficulty, TRUE)[i].kind = "raise",
                    !.validate_calls = r.validate_calls,
                    !.cache_sets = IF r.questions # <<>>
                                   THEN 1 ELSE 0,
                    !.generated = r.generated,
                    !.questions = r.questions]]

\* the rest of the iteration from the pair r that _generate_for_chunk
\* returns: the totals and the cache write
EndChunk(r, write_fault) ==
    /\ total_generated' = total_generated + r.generated
    /\ all_questions' = all_questions \o r.questions
    /\ redis' = IF r.questions # <<>> /\ request.use_cache
                THEN SaveToCache(redis, chunks[idx], request.difficulty, r.questions,
                                 write_fault)
                ELSE redis
    /\ chunk_log' = [chunk_log EXCEPT ![Len(chunk_log)] =
          [@ EXCEPT !.client_raised = (cpc = "raised"),
                    !.llm_candidates = Len(CandidatesOf(client_result)),
                    !.validator_raised =
                        \E i \in 1..Len(CandidatesOf(client_result)) :
                           ValidateAll(CandidatesOf(client_result),
                                       request.difficulty, TRUE)[i].kind = "raise",
                    !.validate_calls = r.validate_calls,
                    !.cache_sets = IF r.questions # <<>> /\ request.use_cache
                                   THEN 1 ELSE 0,
                    !.generated = r.generated,
                    !.questions = r.questions]]

\* the rest of the iteration once the client's call has ended: validation,
\* the totals and the cache write
ChunkDone(write_fault) ==
    /\ gpc = "await"
    /\ cpc \in {"returned", "raised"}
    /\ EndChunk(GenerateForChunk(client_result, chunks[idx], request.difficulty),
                write_fault)
    /\ idx' = idx + 1
    /\ gpc' = "loop"
    /\ cpc' = "idle"
    /\ attempt' = 0
    /\ last_error' = "none"
    /\ client_result' = NoResult
    /\ client_log' = <<>>
    /\ UNCHANGED <<payload_format, calls, request, chunks, from_cache,
                   questions_per_chunk, response, requests, chunker_vars, validator_vars>>

\* after the loop: the truncation and the response
Finish ==
    /\ gpc = "loop"
    /\ idx > Len(chunks)
    /\ all_questions' = Truncate(all_questions, request.count)
    /\ response' = [present |-> TRUE,
                    questions |-> all_questions',
                    total_generated |-> total_generated,
                    total_valid |-> Len(all_questions'),
                    from_cache |-> from_cache,
                    chunk_count |-> Len(chunks)]
    /\ gpc' = "done"
    /\ UNCHANGED <<request, chunks, idx, total_generated, from_cache,
                   questions_per_chunk, redis, requests, chunk_log, client_vars,
                   chunker_vars, validator_vars>>

\* the store drops an entry whose TTL has run out (setex)
Expire(key) ==
    /\ redis[key].present
    /\ redis' = [redis EXCEPT ![key] = Nil]
    /\ UNCHANGED <<gpc, locals, response, requests, chunk_log, client_vars,
                   chunker_vars, validator_vars>>

InitGenerator ==
    /\ gpc = "idle"
    /\ request = NoRequest
    /\ chunks = <<>>
    /\ idx = 1
    /\ all_questions = <<>>
    /\ total_generated = 0
    /\ from_cache = FALSE
    /\ questions_per_chunk = 0
    /\ response = NoResponse
    /\ redis = [k \in CacheKeys |-> Nil]
    /\ requests = 0
    /\ chunk_log = <<>>

(***************************************************************************)
(* SpecClient: a caller that calls generate() on one client.               *)
(***************************************************************************)
CallGenerate ==
    /\ cpc \in {"idle", "returned", "raised"}
    /\ calls < MaxCalls
    /\ \E format \in {"json", "none"} : StartGenerate(format)
    /\ UNCHANGED <<chunker_vars, validator_vars, gen_vars, handler_vars>>

ClientAttempt ==
    /\ gpc = "idle"
    /\ \E resp \in EndpointBehaviours(LLMReplies) : Attempt(resp)
    /\ UNCHANGED <<chunker_vars, validator_vars, gen_vars, handler_vars>>

ClientSleepDone ==
    /\ SleepDone
    /\ UNCHANGED <<chunker_vars, validator_vars, gen_vars, handler_vars>>

IdleChunker ==
    /\ chunker = TextChunkerInit(0, 0, TRUE)
    /\ ck_text = <<>>
    /\ ck_result = NoChunking
    /\ ck_text2 = <<>>
    /\ ck_result2 = NoChunking

\* no answer of GET /api/tags
NoTags ==
    [transport |-> "none", body |-> "none", models |-> [type |-> "absent", items |-> <<>>]]

\* check_health has not been called ("error" and "target_model" are keys that
\* only one of the two kinds of result has; requests counts the GETs made and
\* resp is the answer the endpoint gave)
NoHealth ==
    [kind |-> "none", healthy |-> FALSE, models |-> <<>>, model_available |-> FALSE,
     error |-> FALSE, target_model |-> <<>>, requests |-> 0, resp |-> NoTags]

\* OllamaClient.__init__ (self._client = None) with no handler running
IdleHandler ==
    /\ http_client = "absent"
    /\ client_model = <<"w">>
    /\ health = NoHealth
    /\ hpc = "idle"
    /\ run_attempts = 0

InitClient ==
    /\ cpc = "idle"
    /\ attempt = 0
    /\ last_error = "none"
    /\ payload_format = "none"
    /\ client_result = NoResult
    /\ client_log = <<>>
    /\ calls = 0

NextClient ==
    \/ CallGenerate
    \/ ClientAttempt
    \/ ClientSleepDone

InitSpecClient == InitClient /\ IdleHandler /\ IdleChunker /\ InitGenerator /\ IdleValidator

SpecClient == InitSpecClient /\ [][NextClient]_vars

(***************************************************************************)
(* SpecChunker: chunk_text on every text up to MaxTextLen characters.      *)
(***************************************************************************)
NextChunker == CallChunkText /\ UNCHANGED <<client_vars, gen_vars, validator_vars, handler_vars>>

InitSpecChunker == InitClient /\ IdleHandler /\ InitChunker /\ InitGenerator /\ IdleValidator

SpecChunker == InitSpecChunker /\ [][NextChunker]_vars

(***************************************************************************)
(* SpecChunkerWords: chunk_text on longer texts, built from words.         *)
(***************************************************************************)
\* a word, and a word that ends a sentence
Tokens == {<<"w">>, <<"w", ".">>}
TokenTexts(n) == {Join(ts) : ts \in UNION {[1..k -> Tokens] : k \in 1..n}}
\* targets with lower tolerance bounds 1, 4 and 6
WordsChunkSizes == {2, 5, 7}

InitChunkerWords ==
    /\ \E size \in WordsChunkSizes, overlap \in 1..MaxOverlap, respect \in BOOLEAN :
          chunker = TextChunkerInit(size, overlap, respect)
    /\ ck_text \in TokenTexts(MaxTokens)
    /\ ck_result = NoChunking
    /\ ck_text2 = <<>>
    /\ ck_result2 = NoChunking

InitSpecChunkerWords == InitClient /\ IdleHandler /\ InitChunkerWords /\ InitGenerator /\ IdleValidator

SpecChunkerWords == InitSpecChunkerWords /\ [][NextChunker]_vars

(***************************************************************************)
(* SpecChunkerTwice: one chunker, chunk_text called twice on texts built   *)
(* from words.                                                             *)
(***************************************************************************)
MaxPairTokens == 5
PairChunkSizes == {2, 5}

InitChunkerTwice ==
    /\ \E size \in PairChunkSizes, overlap \in 1..MaxOverlap, respect \in BOOLEAN :
          chunker = TextChunkerInit(size, overlap, respect)
    /\ ck_text \in TokenTexts(MaxPairTokens)
    /\ ck_result = NoChunking
    /\ ck_text2 \in TokenTexts(MaxPairTokens)
    /\ ck_result2 = NoChunking

NextChunkerTwice ==
    \/ CallChunkText /\ UNCHANGED <<client_vars, gen_vars, validator_vars, handler_vars>>
    \/ CallChunkTextAgain /\ UNCHANGED <<client_vars, gen_vars, validator_vars, handler_vars>>

InitSpecChunkerTwice == InitClient /\ IdleHandler /\ InitChunkerTwice /\ InitGenerator /\ IdleValidator

SpecChunkerTwice == InitSpecChunkerTwice /\ [][NextChunkerTwice]_vars

(***************************************************************************)
(* SpecChunkerLong: chunk_text with a target whose lower bound is two      *)
(* below it, on texts of about the target's length.                        *)
(***************************************************************************)
LongChunkSize == 11
MaxLongTokens == 11
LongTexts ==
    {Join(ts) : ts \in UNION {[1..k -> Tokens] : k \in (LongChunkSize - 2)..MaxLongTokens}}

InitChunkerLong ==
    /\ \E overlap \in 0..MaxOverlap, respect \in BOOLEAN :
          chunker = TextChunkerInit(LongChunkSize, overlap, respect)
    /\ ck_text \in LongTexts
    /\ ck_result = NoChunking
    /\ ck_text2 = <<>>
    /\ ck_result2 = NoChunking

InitSpecChunkerLong == InitClient /\ IdleHandler /\ InitChunkerLong /\ InitGenerator /\ IdleValidator

SpecChunkerLong == InitSpecChunkerLong /\ [][NextChunker]_vars

(***************************************************************************)
(* SpecHealth: the health route builds a client, calls check_health and    *)
(* closes the client.                                                      *)
(***************************************************************************)
\* model names over two characters
ModelNames == {<<"w">>, <<".">>, <<"w", ".">>, <<".", "w">>, <<"w", "w">>}
\* the entries of "models": mappings with a name (a string or a number),
\* mappings without a name, and entries that are no mapping
TagEntries ==
    [type : {"dict"}, name : [type : {"str"}, value : ModelNames]]
        \cup [type : {"dict"}, name : [type : {"int", "absent"}, value : {<<>>}]]
        \cup [type : {"str"}, name : [type : {"absent"}, value : {<<>>}]]
MaxTags == 2
TagLists == UNION {[1..n -> TagEntries] : n \in 0..MaxTags}
\* the answers to GET /api/tags
TagsBehaviours ==
    [transport : {"connect_error", "timeout", "http_status_error"}, body : {"none"},
     models : {[type |-> "absent", items |-> <<>>]}]
  \cup [transport : {"ok"}, body : {"not_json", "json_list"},
        models : {[type |-> "absent", items |-> <<>>]}]
  \cup [transport : {"ok"}, body : {"json_object"},
        models : [type : {"absent", "null"}, items : {<<>>}]
                   \cup [type : {"list"}, items : TagLists]]

\* self.model == m (mutant)
Contains_Equal(m, model) == m = model

\* self.model in m
Contains(m, model) == Find(m, model, 0) # -1

\* any(self.model in m for m in models): stops at the first name that
\* contains the model; `in` raises TypeError on a name that is a number
RECURSIVE ModelAvailable(_, _, _)
ModelAvailable(model, names, i) ==
    IF i > Len(names) THEN "false"
    ELSE IF names[i].type # "str" THEN "raise"
    ELSE IF Contains(names[i].value, model) THEN "true"
    ELSE ModelAvailable(model, names, i + 1)

\* the two except branches of check_health
Unhealthy(resp) ==
    [kind |-> "return", healthy |-> FALSE, models |-> <<>>, model_available |-> FALSE,
     error |-> TRUE, target_model |-> <<>>, requests |-> 1, resp |-> resp]

\* OllamaClient.check_health
CheckHealth(model, resp) ==
    IF resp.transport # "ok" THEN Unhealthy(resp)
    ELSE IF resp.body # "json_object" THEN Unhealthy(resp)
    ELSE IF resp.models.type = "null" THEN Unhealthy(resp)
    ELSE LET items == resp.models.items IN
         IF \E i \in 1..Len(items) :
               items[i].type # "dict" \/ items[i].name.type = "absent"
         THEN Unhealthy(resp)
         ELSE LET models == [i \in 1..Len(items) |-> items[i].name]
                  model_available == ModelAvailable(model, models, 1)
              IN IF model_available = "raise" THEN Unhealthy(resp)
                 ELSE [kind |-> "return", healthy |-> TRUE, models |-> models,
                       model_available |-> (model_available = "true"),
                       error |-> FALSE, target_model |-> model, requests |-> 1,
                       resp |-> resp]

\* OllamaClient.close
Close(c) == IF c = "open" THEN "absent" ELSE c

\* llm_client = OllamaClient(); ollama_health = await llm_client.check_health()
HealthCheck ==
    /\ health.kind = "none"
    /\ hpc = "idle"
    /\ \E resp \in TagsBehaviours : health' = CheckHealth(client_model, resp)
    /\ http_client' = "open"
    /\ UNCHANGED <<client_model, hpc, run_attempts, client_vars, chunker_vars, gen_vars,
                   validator_vars>>

\* await llm_client.close()
HealthClose ==
    /\ health.kind = "return"
    /\ http_client = "open"
    /\ http_client' = Close(http_client)
    /\ UNCHANGED <<client_model, health, hpc, run_attempts, client_vars, chunker_vars,
                   gen_vars, validator_vars>>

InitHealth ==
    /\ http_client = "absent"
    /\ client_model \in {<<"w">>, <<".">>, <<"w", ".">>}
    /\ health = NoHealth
    /\ hpc = "idle"
    /\ run_attempts = 0

NextHealth == HealthCheck \/ HealthClose

InitSpecHealth == InitClient /\ InitHealth /\ IdleChunker /\ InitGenerator /\ IdleValidator

SpecHealth == InitSpecHealth /\ [][NextHealth]_vars

(***************************************************************************)
(* SpecValidator: validate on one candidate drawn from a set of well-      *)
(* formed, defective and pathological candidates.                          *)
(***************************************************************************)
\* too short, not ending in "?", negatively phrased, not found in the source
QShort == [Str(5, 5, 9) EXCEPT !.negative = TRUE, !.found = 0]
\* over the validator's maximum, within the model's
QLong == [Str(600, 600, 9) EXCEPT !.ends_q = TRUE]
\* over the model's maximum
QHuge == [Str(1001, 1001, 9) EXCEPT !.ends_q = TRUE]
ValidatorQuestionTexts == {Absent, QShort, GoodText, QLong, QHuge}

ThreeOptions == SubSeq(GoodOptions, 1, 3)
FiveOptions == Append(GoodOptions, Option("E", Str(12, 12, 5)))
RepeatedIdOptions ==
    <<Option("A", Str(12, 12, 1)), Option("A", Str(12, 12, 2)),
      Option("B", Str(12, 12, 3)), Option("C", Str(12, 12, 4))>>
\* four times the same text, "all of the above", with no word of the source
IdenticalOptions ==
    [i \in 1..4 |->
        Option(GoodOptions[i].id,
               [Str(16, 16, 1) EXCEPT !.allnone = TRUE, !.found = 0])]
EmptyTextOptions == [GoodOptions EXCEPT ![4] = Option("D", Str(0, 0, 0))]
BlankTextOptions == [GoodOptions EXCEPT ![4] = Option("D", Str(2, 0, 0))]
\* lengths 12, 12, 12 and 501: a large variance, and over the model's maximum
HugeTextOptions == [GoodOptions EXCEPT ![4] = Option("D", Str(501, 501, 4))]
NoTextOptions == [GoodOptions EXCEPT ![4] = Option("D", Absent)]
NoIdOptions == [GoodOptions EXCEPT ![4] = Option("absent", Str(12, 12, 4))]
NonDictOptions == [GoodOptions EXCEPT ![4] = NonDictOption]
\* thirty options with empty texts, the first four with the expected ids
ThirtyEmptyOptions ==
    [i \in 1..30 |-> Option(IF i <= 4 THEN GoodOptions[i].id ELSE "E", Str(0, 0, 0))]
\* over the validator's maximum, within the model's, with a large variance
WeakOptions ==
    <<Option("A", Str(201, 201, 1)), Option("B", Str(201, 201, 2)),
      Option("C", Str(201, 201, 3)), Option("D", Str(500, 500, 4))>>
TenNonDictOptions == [i \in 1..10 |-> NonDictOption]
ValidatorOptionLists ==
    {GoodOptions, ThreeOptions, FiveOptions, RepeatedIdOptions, IdenticalOptions,
     EmptyTextOptions, BlankTextOptions, HugeTextOptions, NoTextOptions,
     NoIdOptions, NonDictOptions, ThirtyEmptyOptions, TenNonDictOptions,
     WeakOptions}
ValidatorOptions ==
         [type : {"list"}, items : ValidatorOptionLists]
    \cup [type : {"absent", "nonlist"}, items : {<<>>}]

\* the last one a JSON array
ValidatorCorrectAnswers ==
         [type : {"str"}, value : {"A", "E", ""}]
    \cup [type : {"absent", "list"}, value : {"none"}]

\* under both minima; under the validator's minimum only; over the model's
\* maximum; a value that is no string
ValidatorExplanations ==
    {Absent, Str(5, 5, 8), Str(15, 15, 8), GoodExplanation, Str(1001, 1001, 8),
     Number}

ValidatorDifficulties ==
         [type : {"str"}, value : {"easy", "bogus"}]
    \cup [type : {"absent"}, value : {"none"}]

ValidatorCandidates ==
    [kind : {"dict"}, questionText : ValidatorQuestionTexts,
     options : ValidatorOptions, correctAnswer : ValidatorCorrectAnswers,
     explanation : ValidatorExplanations, difficulty : ValidatorDifficulties]

InitValidator ==
    /\ vq_data \in ValidatorCandidates \cup {NumberCandidate}
    /\ vq_difficulty \in {"none", "hard"}
    /\ vq_source \in BOOLEAN
    /\ vq_result = NoValidation

NextValidator == CallValidate /\ UNCHANGED <<client_vars, chunker_vars, gen_vars, handler_vars>>

InitSpecValidator == InitClient /\ IdleHandler /\ IdleChunker /\ InitGenerator /\ InitValidator

SpecValidator == InitSpecValidator /\ [][NextValidator]_vars

(***************************************************************************)
(* Spec: one QuestionGenerator with an injected chunker serving requests.  *)
(***************************************************************************)
TextOneSentence == <<"w", ".">>
TextTwoSentences == <<"w", ".", " ", "w", ".">>
TextBlank == <<" ">>
RequestTexts == {TextOneSentence, TextTwoSentences, TextBlank}

Requests ==
    [text : RequestTexts, difficulty : {"easy", "hard"}, count : 1..MaxCount,
     use_cache : BOOLEAN]

\* the endpoint in Spec: it times out, answers with an error status or
\* answers with one of the replies
GenEndpointBehaviours ==
    {r \in EndpointBehaviours(GenReplies) :
        \/ r.transport \in {"timeout", "http_status_error"}
        \/ r.transport = "ok" /\ r.text = "json"}

GenRequest ==
    /\ \E req \in Requests : Generate(req)
    /\ UNCHANGED handler_vars

GenProcessChunk ==
    /\ \E read_fault \in BOOLEAN : ProcessChunk(read_fault)
    /\ UNCHANGED handler_vars

GenAttempt ==
    /\ gpc = "await"
    /\ \E resp \in GenEndpointBehaviours : Attempt(resp)
    /\ UNCHANGED <<chunker_vars, validator_vars, gen_vars, handler_vars>>

GenSleepDone ==
    /\ gpc = "await"
    /\ SleepDone
    /\ UNCHANGED <<chunker_vars, validator_vars, gen_vars, handler_vars>>

GenChunkDone ==
    /\ \E write_fault \in BOOLEAN : ChunkDone(write_fault)
    /\ UNCHANGED handler_vars

GenFinish == Finish /\ UNCHANGED handler_vars

GenExpire ==
    /\ \E key \in CacheKeys : Expire(key)
    /\ UNCHANGED handler_vars

InitSpec ==
    /\ InitClient
    /\ IdleHandler
    /\ InitGenerator
    /\ IdleValidator
    /\ \E overlap \in 1..2 : chunker = TextChunkerInit(2, overlap, TRUE)
    /\ ck_text = <<>>
    /\ ck_result = NoChunking
    /\ ck_text2 = <<>>
    /\ ck_result2 = NoChunking

Next ==
    \/ GenRequest
    \/ GenProcessChunk
    \/ GenAttempt
    \/ GenSleepDone
    \/ GenChunkDone
    \/ GenFinish
    \/ GenExpire

Spec == InitSpec /\ [][Next]_vars

(***************************************************************************)
(* SpecFair: requests for one text, with every started step of a run       *)
(* completing: the synchronous code between two awaits runs on, every HTTP *)
(* attempt returns or fails, and every sleep ends. Nothing forces a new    *)
(* request or the expiry of a cache entry.                                 *)
(***************************************************************************)
FairRequests ==
    {req \in Requests :
        req.text = TextTwoSentences /\ req.difficulty = "easy" /\ req.count = MaxCount}

FairRequest ==
    /\ \E req \in FairRequests : Generate(req)
    /\ run_attempts' = 0
    /\ UNCHANGED <<http_client, client_model, health, hpc>>

FairAttempt ==
    /\ gpc = "await"
    /\ \E resp \in GenEndpointBehaviours : Attempt(resp)
    /\ run_attempts' = run_attempts + 1
    /\ UNCHANGED <<chunker_vars, validator_vars, gen_vars, http_client, client_model,
                   health, hpc>>

NextFair ==
    \/ FairRequest
    \/ GenProcessChunk
    \/ FairAttempt
    \/ GenSleepDone
    \/ GenChunkDone
    \/ GenFinish
    \/ GenExpire

\* the steps of a run; at most one of them is enabled in a state
RunStep ==
    \/ GenProcessChunk
    \/ FairAttempt
    \/ GenSleepDone
    \/ GenChunkDone
    \/ GenFinish

SpecFair == InitSpec /\ [][NextFair]_vars /\ WF_vars(RunStep)


(***************************************************************************)
(* SpecHandler: the /generate route. Every request gets a generator of its *)
(* own (get_generator), with a client of its own; the cache is shared. The *)
(* task that runs the handler can be cancelled while it waits for the      *)
(* client.                                                                 *)
(***************************************************************************)
HandlerRequests ==
    {req \in Requests :
        /\ req.text \in {TextTwoSentences, TextBlank}
        /\ req.difficulty = "easy"
        /\ req.count = MaxCount}

\* OllamaClient.client: the open client, created when there is none
ClientProperty(c) == IF c = "absent" THEN "open" ELSE c

\* generate_questions up to the first await that suspends: a new generator,
\* the request, generator.generate up to its loop; "except ChunkingError"
HandlerRequest ==
    /\ hpc # "running"
    /\ \E req \in HandlerRequests : Generate(req)
    /\ http_client' = "absent"
    /\ hpc' = IF gpc' = "failed" THEN "raised" ELSE "running"
    /\ UNCHANGED <<client_model, health, run_attempts>>

\* an iteration up to "continue" or up to the await of self.client.post(...)
HandlerProcessChunk ==
    /\ hpc = "running"
    /\ \E read_fault \in BOOLEAN : ProcessChunk(read_fault)
    /\ http_client' = IF gpc' = "await" THEN ClientProperty(http_client) ELSE http_client
    /\ UNCHANGED <<client_model, health, hpc, run_attempts>>

HandlerAttempt ==
    /\ hpc = "running"
    /\ gpc = "await"
    /\ \E resp \in GenEndpointBehaviours : Attempt(resp)
    /\ http_client' = ClientProperty(http_client)
    /\ UNCHANGED <<chunker_vars, validator_vars, gen_vars, client_model, health, hpc,
                   run_attempts>>

HandlerSleepDone == hpc = "running" /\ GenSleepDone

HandlerChunkDone == hpc = "running" /\ GenChunkDone

\* response = await generator.generate(request) returns;
\* await generator.close(); return response
HandlerFinish ==
    /\ hpc = "running"
    /\ Finish
    /\ http_client' = Close(http_client)
    /\ hpc' = "returned"
    /\ UNCHANGED <<client_model, health, run_attempts>>

\* the task is cancelled while it awaits the client (the request or the sleep
\* between two attempts): CancelledError is no Exception, so it passes the
\* except clauses of _execute_request, _execute_with_retry,
\* _generate_for_chunk and generate_questions
HandlerAbandon ==
    /\ hpc = "running"
    /\ gpc = "await"
    /\ cpc \in {"attempting", "sleeping"}
    /\ hpc' = "abandoned"
    /\ gpc' = "failed"
    /\ UNCHANGED <<locals, response, redis, requests, chunk_log, client_vars,
                   chunker_vars, validator_vars, http_client, client_model, health,
                   run_attempts>>

NextHandler ==
    \/ HandlerRequest
    \/ HandlerProcessChunk
    \/ HandlerAttempt
    \/ HandlerSleepDone
    \/ HandlerChunkDone
    \/ HandlerFinish
    \/ HandlerAbandon

SpecHandler == InitSpec /\ [][NextHandler]_vars

(***************************************************************************)
(* Properties of the client's retry loop (SpecClient).                     *)
(***************************************************************************)
Transient == {"LLMTimeoutError", "LLMConnectionError"}
IsAttempt(e) == e.ev = "attempt"
IsTransientFailure(e) == e.ev = "attempt" /\ e.kind = "raise" /\ e.error \in Transient
Ended == cpc \in {"returned", "raised"}
AttemptsMade == Cardinality({i \in 1..Len(client_log) : IsAttempt(client_log[i])})

\* C1: generate retries only on timeout or connection failure on the fixed
\* schedule: the log of one call is attempt 1, sleep 2, attempt 2, sleep 4,
\* attempt 3, sleep 8, attempt 4; attempt k+1 is made iff attempts 1..k all
\* failed with a timeout/connection error and k < 4, after a sleep of exactly
\* the k-th delay; the first success ends the call with that result; the
\* terminal transient error is raised only after the 4th attempt failed, and
\* no sleep follows the 4th attempt.
C1_RetrySchedule ==
    /\ AttemptsMade <= 4
    /\ \A i \in 1..Len(client_log) :
         LET e == client_log[i] IN
         \* attempts and sleeps alternate, numbered 1, 2, ...
         /\ (i % 2 = 1) => (IsAttempt(e) /\ e.n = (i + 1) \div 2)
         /\ (i % 2 = 0) => (e.ev = "sleep" /\ e.n = i \div 2)
         \* the sleep after attempt k lasts 2, 4, 8 seconds, and only k < 4
         /\ (e.ev = "sleep") =>
               /\ e.n \in 1..3
               /\ e.delay = <<2, 4, 8>>[e.n]
               /\ IsTransientFailure(client_log[i - 1])
         \* a later attempt is made only after transient failures
         /\ (IsAttempt(e) /\ i < Len(client_log)) => IsTransientFailure(e)
         \* a transient failure before the 4th attempt is followed by its sleep
         /\ (IsTransientFailure(e) /\ e.n < 4) =>
               (i < Len(client_log) /\ client_log[i + 1].ev = "sleep")
         \* no sleep follows the 4th attempt
         /\ (IsAttempt(e) /\ e.n = 4) => i = Len(client_log)
         \* a success ends the call with that result
         /\ (IsAttempt(e) /\ e.kind = "return") =>
               /\ i = Len(client_log)
               /\ cpc = "returned"
               /\ client_result = ExecuteRequest(payload_format, e.resp)
    \* while the call has not ended, the loop goes on to attempt k+1
    /\ (client_log # <<>> /\ client_log[Len(client_log)].ev = "sleep") =>
          /\ ~Ended
          /\ cpc = "sleeping" => attempt = client_log[Len(client_log)].n
          /\ cpc = "attempting" => attempt = client_log[Len(client_log)].n + 1
    \* the terminal transient error is raised only after the 4th attempt
    /\ (cpc = "raised" /\ client_result.error \in Transient) =>
          /\ AttemptsMade = 4
          /\ \A i \in 1..Len(client_log) :
                IsAttempt(client_log[i]) => IsTransientFailure(client_log[i])
          /\ client_result.error = client_log[Len(client_log)].error

\* the schedule is exhausted: four transient failures, three sleeps, raised
C1_Witness ==
    /\ cpc = "raised"
    /\ Len(client_log) = 7
    /\ client_result.error = "LLMTimeoutError"
    /\ client_log[1].error = "LLMConnectionError"

\* the endpoint answered, but with an empty or undecodable response
BadResponse(format, resp) ==
    /\ resp.transport = "ok"
    /\ \/ resp.body = "not_json"
       \/ resp.body = "json_object" /\ resp.text = "empty"
       \/ resp.body = "json_object" /\ resp.text = "not_json" /\ format = "json"

\* C2: a response that arrives but is empty or fails to parse as JSON is
\* never retried: at whichever attempt it occurs, generate raises the
\* response error at once, with no further attempt and no further sleep.
C2_BadResponseNotRetried ==
    \A i \in 1..Len(client_log) :
       LET e == client_log[i] IN
       (IsAttempt(e) /\ BadResponse(payload_format, e.resp)) =>
          /\ i = Len(client_log)
          /\ cpc = "raised"
          /\ client_result.kind = "raise"
          /\ client_result.error \in {"LLMResponseError", "JSONParseError"}
          /\ client_result.error = e.error

\* an unparseable response text at the third attempt, after two timeouts
C2_Witness ==
    /\ cpc = "raised"
    /\ Len(client_log) = 5
    /\ client_log[1].error = "LLMTimeoutError"
    /\ client_log[5].resp.text = "not_json"
    /\ client_result.error = "JSONParseError"


(***************************************************************************)
(* Properties of QuestionGenerator.generate (Spec).                        *)
(***************************************************************************)
\* the chunk of this entry was served from the cache
Hit(e) == e.looked_up /\ e.cached # <<>>
\* processing the chunk of this entry ended in an exception
Failed(e) == e.client_raised \/ e.validator_raised
\* the step is one iteration's cache lookup
LookupStep == gpc = "loop" /\ Len(chunk_log') = Len(chunk_log) + 1
NewEntry == chunk_log'[Len(chunk_log')]
\* the number of questions accepted over all chunks, before truncation
Accepted == SumSeq([i \in 1..Len(chunk_log) |-> Len(chunk_log[i].questions)])
Misses == {i \in 1..Len(chunk_log) : ~Hit(chunk_log[i])}

\* C3: with use_cache true, a chunk whose (text, difficulty) lookup is a hit
\* causes no call of the client, the validator or the cache store; its cached
\* questions are appended to the result and the loop goes on to the next chunk.
C3_HitSkipsClient ==
    /\ [](\A i \in 1..Len(chunk_log) :
            Hit(chunk_log[i]) =>
                /\ request.use_cache
                /\ chunk_log[i].client_calls = 0
                /\ chunk_log[i].validate_calls = 0
                /\ chunk_log[i].cache_sets = 0
                /\ chunk_log[i].questions = chunk_log[i].cached)
    /\ [][(LookupStep /\ Hit(NewEntry)) =>
            /\ calls' = calls
            /\ cpc' = cpc
            /\ client_log' = client_log
            /\ redis' = redis
            /\ all_questions' = all_questions \o NewEntry.cached
            /\ idx' = idx + 1
            /\ gpc' = "loop"]_vars

\* the first chunk was served from the cache and the second was then
\* generated by the client
C3_Witness ==
    /\ Len(chunk_log) = 2
    /\ Hit(chunk_log[1])
    /\ chunk_log[1].client_calls = 0
    /\ chunk_log[2].client_calls = 1
    /\ gpc = "done"

\* C4: the response's from_cache is true exactly when at least one chunk of
\* the request was served from the cache; it is false with use_cache false.
C4_FromCacheIffAnyHit ==
    response.present =>
        /\ response.from_cache <=> (\E i \in 1..Len(chunk_log) : Hit(chunk_log[i]))
        /\ ~request.use_cache => ~response.from_cache
        /\ Len(chunk_log) = Len(chunks)

\* two chunks, the first generated and the second served from the cache
C4_Witness ==
    /\ response.present
    /\ response.from_cache
    /\ Len(chunk_log) = 2
    /\ ~Hit(chunk_log[1])
    /\ Hit(chunk_log[2])

\* the raw candidate count of a chunk as C5 states it
RawAsStated(e) == IF Hit(e) THEN Len(e.cached) ELSE e.llm_candidates
\* the raw candidate count a chunk contributes: nothing when it failed
RawCount(e) == IF Hit(e) THEN Len(e.cached)
               ELSE IF Failed(e) THEN 0 ELSE e.llm_candidates

C6_ChunkFailureScoped ==
    /\ [](\A i \in 1..Len(chunk_log) :
            Failed(chunk_log[i]) =>
                chunk_log[i].questions = <<>> /\ chunk_log[i].generated = 0)
    /\ [](gpc = "failed" => chunk_log = <<>>)
    /\ [](gpc = "done" => response.present /\ Len(chunk_log) = Len(chunks))
    /\ [][(gpc = "await" /\ gpc' # "await" /\ Failed(NewEntry)) =>
            /\ gpc' = "loop"
            /\ idx' = idx + 1
            /\ all_questions' = all_questions
            /\ total_generated' = total_generated]_vars

\* the validator raised in the first chunk, the second chunk gave a question,
\* and the response was returned
C6_Witness ==
    /\ response.present
    /\ Len(chunk_log) = 2
    /\ chunk_log[1].validator_raised
    /\ chunk_log[2].questions # <<>>
    /\ Len(response.questions) = 1

\* C7: every chunk not served from the cache causes one call of the client
\* asking for max(1, count // chunk_count) questions, whatever earlier chunks
\* gave; with use_cache false the client is called chunk_count times.
C7_OneCallPerMiss ==
    /\ \A i \in Misses :
          /\ chunk_log[i].client_calls = 1
          /\ chunk_log[i].asked = Max(1, request.count \div Len(chunks))
    /\ calls = Cardinality(Misses)
    /\ (response.present /\ ~request.use_cache) =>
          /\ calls = response.chunk_count
          /\ response.chunk_count = Len(chunks)

\* count 1 over two chunks: the first chunk gave the one question asked for
\* and the client was still called for the second
C7_Witness ==
    /\ response.present
    /\ request.count = 1
    /\ Len(chunk_log) = 2
    /\ Misses = {1, 2}
    /\ chunk_log[1].questions # <<>>
    /\ chunk_log[2].client_calls = 1
    /\ chunk_log[2].asked = 1
    /\ calls = 2

\* C8: whenever the store returns the entry kept for a chunk's text and the
\* requested difficulty, the chunk is served from that entry.
C8_StoredIsServed ==
    [][(LookupStep /\ NewEntry.cache_data) =>
          /\ Hit(NewEntry)
          /\ [i \in 1..Len(NewEntry.cached) |-> ModelDump(NewEntry.cached[i])] =
                redis[GetQuestionCacheKey(chunks[idx].text, request.difficulty)].questions
      ]_vars

\* the store returned the entry kept for the chunk's text and difficulty and
\* the chunk was not served from it
C8_Witness ==
    \E i \in 1..Len(chunk_log) :
        /\ chunk_log[i].cache_data
        /\ ~Hit(chunk_log[i])
        /\ chunk_log[i].client_calls = 1

(***************************************************************************)
(* Properties of chunk_text (SpecChunker).                                 *)
(***************************************************************************)
IsBlank(t) == \A i \in 1..Len(t) : t[i] \in Whitespace
\* the words of t, counted at their first characters
NumWords(t) ==
    Cardinality({i \in 1..Len(t) :
                   t[i] \notin Whitespace /\ (i = 1 \/ t[i - 1] \in Whitespace)})
\* t without its leading and trailing whitespace (t not blank)
Trimmed(t) ==
    LET solid == {i \in 1..Len(t) : t[i] \notin Whitespace}
        first == CHOOSE i \in solid : \A j \in solid : i <= j
        last == CHOOSE i \in solid : \A j \in solid : i >= j
    IN [k \in 1..(last - first + 1) |-> t[first + k - 1]]
ChunkTextCalled == ck_result.kind # "none"

\* C9: chunk_text fails with ChunkingError, returning no chunks, whenever
\* the input text is empty or consists only of whitespace.
C9_BlankTextRaises ==
    (ChunkTextCalled /\ IsBlank(ck_text)) =>
        /\ ck_result.kind = "raise"
        /\ ck_result.error = "ChunkingError"
        /\ ck_result.chunks = <<>>

\* chunk_text was called on a text of several whitespace characters
C9_Witness ==
    /\ ChunkTextCalled
    /\ Len(ck_text) >= 2
    /\ IsBlank(ck_text)
    /\ ck_result.error = "ChunkingError"

\* C10: for every non-blank text whose word count is at most the lower
\* tolerance bound int(0.9 x target_words), chunk_text returns exactly one
\* chunk whose text is the trimmed input, with chunk_index 0 and
\* overlap_start = overlap_end = false.
C10_ShortTextSingleChunk ==
    (/\ ChunkTextCalled
     /\ ~IsBlank(ck_text)
     /\ NumWords(ck_text) <= (9 * chunker.chunk_size_words) \div 10) =>
        /\ ck_result.kind = "return"
        /\ Len(ck_result.chunks) = 1
        /\ ck_result.total_chunks = 1
        /\ ck_result.chunks[1].text = Trimmed(ck_text)
        /\ ck_result.chunks[1].chunk_index = 0
        /\ ck_result.chunks[1].overlap_start = FALSE
        /\ ck_result.chunks[1].overlap_end = FALSE

\* two words with surrounding and doubled inner whitespace, a chunker with
\* target 3 (lower bound 2): one chunk, trimmed, inner whitespace kept
C10_Witness ==
    /\ ChunkTextCalled
    /\ chunker.chunk_size_words = 3
    /\ ck_text = <<" ", "w", " ", " ", "w", " ">>
    /\ ck_result.kind = "return"
    /\ Len(ck_result.chunks) = 1
    /\ ck_result.chunks[1].text = <<"w", " ", " ", "w">>

(***************************************************************************)
(* Properties of the chunks of a multi-chunk output.                       *)
(***************************************************************************)
Returned == ChunkTextCalled /\ ck_result.kind = "return"
\* the sentences chunk_text hands to _create_chunks_from_sentences
SentencesOf(self, text) ==
    IF self.respect_sentences THEN GetSentences(text) ELSE Split(text)
\* chunk_text took the path through _create_chunks_from_sentences
MultiPath == Returned /\ WordCount(ck_text) > chunker.min_chunk_words
\* the locals of _create_chunks_from_sentences when its loop has ended
LoopEnd == ChunkLoop(chunker, ChunkLoopInit, SentencesOf(chunker, ck_text), 1, ck_text)
IsPrefix(p, t) == Len(p) <= Len(t) /\ SubSeq(t, 1, Len(p)) = p
IsSuffix(p, t) == Len(p) <= Len(t) /\ SubSeq(t, Len(t) - Len(p) + 1, Len(t)) = p

\* C11: in an output of more than one chunk, every chunk that is followed by
\* another chunk has a word count between 0.9 x target_words and
\* 1.1 x target_words.
C11_ClosedChunksInBand ==
    (Returned /\ Len(ck_result.chunks) > 1) =>
        \A i \in 1..(Len(ck_result.chunks) - 1) :
            /\ 10 * ck_result.chunks[i].word_count >= 9 * chunker.chunk_size_words
            /\ 10 * ck_result.chunks[i].word_count <= 11 * chunker.chunk_size_words

\* target 7 (band 6.3 to 7.7) and two sentences of four words: the first
\* chunk is closed with eight words and a second chunk follows it
C11_Witness ==
    /\ Returned
    /\ chunker.chunk_size_words = 7
    /\ chunker.respect_sentences
    /\ Len(GetSentences(ck_text)) = 2
    /\ Len(ck_result.chunks) = 2
    /\ ck_result.chunks[1].word_count = 8

\* the sentence list each returned chunk was joined from: the lists of the
\* chunks closed in the loop, then the remaining buffer when a trailing chunk
\* was emitted
ListsOf(st, chunk_list) ==
    IF Len(chunk_list) = Len(st.lists) + 1
    THEN Append(st.lists, st.current_sentences)
    ELSE st.lists
ChunkLists == ListsOf(LoopEnd, ck_result.chunks)
\* some non-empty suffix of list a is a prefix of list b
SuffixLeads(a, b) ==
    \E k \in 1..Len(a) : IsPrefix(SubSeq(a, Len(a) - k + 1, Len(a)), b)

\* the chunks are the joins of the lists, and each list but the first begins
\* with a non-empty suffix of the list before it
SuffixChain(lists, chunk_list) ==
    /\ Len(lists) = Len(chunk_list)
    /\ \A i \in 1..Len(chunk_list) : chunk_list[i].text = Join(lists[i])
    /\ \A i \in 1..(Len(chunk_list) - 1) : SuffixLeads(lists[i], lists[i + 1])

\* C12: in an output of more than one chunk, with overlap_words > 0, every
\* chunk is the join of its sentence list and the sentence list of chunk i+1
\* begins with a non-empty suffix of the sentence list of chunk i.
C12_OverlapIsSuffix ==
    (MultiPath /\ Len(ck_result.chunks) > 1 /\ chunker.overlap_words > 0) =>
        SuffixChain(ChunkLists, ck_result.chunks)

\* three chunks, the second of which begins with a sentence of several words
\* that closed the first and is followed by a sentence that differs from it
C12_Witness ==
    /\ MultiPath
    /\ chunker.respect_sentences
    /\ chunker.overlap_words = 1
    /\ Len(ck_result.chunks) = 3
    /\ WordCount(ChunkLists[2][1]) > 1
    /\ ChunkLists[2][1] = ChunkLists[1][Len(ChunkLists[1])]
    /\ Len(ChunkLists[2]) > 1
    /\ ChunkLists[2][2] # ChunkLists[2][1]

(***************************************************************************)
(* The remainder left in the buffer when the loop has ended.               *)
(***************************************************************************)
\* the test at the head of the remainder handling: a remainder shorter than
\* half the lower bound, after at least one chunk was yielded
RemainderSkipped ==
    /\ MultiPath
    /\ LoopEnd.current_sentences # <<>>
    /\ LoopEnd.current_word_count < chunker.min_chunk_words \div 2
    /\ LoopEnd.chunk_index > 0
\* sentence s appears in the text of some returned chunk
Appears(s) ==
    \E i \in 1..Len(ck_result.chunks) : Find(ck_result.chunks[i].text, s, 0) # -1

\* C13: when the remainder has fewer than min_chunk_words // 2 words and at
\* least one chunk was emitted, no trailing chunk is emitted for it and every
\* sentence of the remainder appears in the text of some returned chunk.
C13_RemainderMerged ==
    RemainderSkipped =>
        /\ Len(ck_result.chunks) = LoopEnd.chunk_index
        /\ \A k \in 1..Len(LoopEnd.current_sentences) :
              Appears(LoopEnd.current_sentences[k])

\* target 7, word-based: seven words close the only chunk, and the eighth
\* word, which ends in a terminator, is left in a remainder of two words
C13_Witness ==
    /\ RemainderSkipped
    /\ ~chunker.respect_sentences
    /\ chunker.chunk_size_words = 7
    /\ Len(ck_result.chunks) = 1
    /\ ck_result.chunks[1].word_count = 7
    /\ ck_result.original_word_count = 8
    /\ LoopEnd.current_sentences = <<<<"w">>, <<"w", ".">>>>
    /\ ~Appears(<<"w", ".">>)

\* C14: overlap_end is true for every returned chunk except the last and false
\* for the last, whether or not a trailing chunk was emitted for the remainder.
C14_OverlapEndFlags ==
    Returned =>
        \A i \in 1..Len(ck_result.chunks) :
            ck_result.chunks[i].overlap_end = (i < Len(ck_result.chunks))

\* the remainder was skipped, so the last returned chunk is one the loop closed
C14_Witness ==
    /\ RemainderSkipped
    /\ chunker.chunk_size_words = 5
    /\ Len(ck_result.chunks) = 2
    /\ ck_result.chunks[1].overlap_end
    /\ ck_result.chunks[2].overlap_end

(***************************************************************************)
(* Chunks and sentence boundaries (respect_sentences true).                *)
(***************************************************************************)
\* text is the space-join of sentences a..b of S
IsRun(text, S, a, b) == text = Join(SubSeq(S, a, b))
\* text is the space-join of some contiguous run of the sentences S
RunOf(text, S) == \E a \in 1..Len(S) : \E b \in a..Len(S) : IsRun(text, S, a, b)
\* the same, and a run that stops before the last sentence of the input ends
\* on a terminator
TerminatedRunOf(text, S) ==
    \E a \in 1..Len(S) : \E b \in a..Len(S) :
        /\ IsRun(text, S, a, b)
        /\ b < Len(S) => text[Len(text)] = "."

\* C15 as stated: with respect_sentences true every returned chunk is the
\* space-join of a contiguous run of the segmenter's sentences, in order.
C15_AsStated ==
    (Returned /\ chunker.respect_sentences) =>
        \A i \in 1..Len(ck_result.chunks) :
            RunOf(ck_result.chunks[i].text, GetSentences(ck_text))

\* C15: with respect_sentences true, every chunk of a multi-chunk output is
\* the space-join of a contiguous run of the segmenter's sentences, in order,
\* ending on a terminator unless the run reaches the last sentence of the
\* input; the chunk of a single-chunk output is the trimmed input, which
\* begins with the first sentence and ends with the last.
C15_WholeSentences ==
    (Returned /\ chunker.respect_sentences) =>
        IF MultiPath
        THEN \A i \in 1..Len(ck_result.chunks) :
                TerminatedRunOf(ck_result.chunks[i].text, GetSentences(ck_text))
        ELSE /\ Len(ck_result.chunks) = 1
             /\ ck_result.chunks[1].text = Strip(ck_text)
             /\ IsPrefix(GetSentences(ck_text)[1], ck_result.chunks[1].text)
             /\ IsSuffix(GetSentences(ck_text)[Len(GetSentences(ck_text))],
                         ck_result.chunks[1].text)

\* three sentences that differ, with a second and a third chunk that are each
\* joined from an overlap sentence and a new sentence
C15_Witness ==
    /\ MultiPath
    /\ chunker.respect_sentences
    /\ Len(GetSentences(ck_text)) = 3
    /\ GetSentences(ck_text)[1] # GetSentences(ck_text)[2]
    /\ GetSentences(ck_text)[2] # GetSentences(ck_text)[3]
    /\ Len(ck_result.chunks) > 2
    /\ IsRun(ck_result.chunks[2].text, GetSentences(ck_text), 1, 2)
    /\ IsRun(ck_result.chunks[3].text, GetSentences(ck_text), 2, 3)

(***************************************************************************)
(* Properties of validate (SpecValidator).                                 *)
(***************************************************************************)
RequiredFields == {"questionText", "options", "correctAnswer", "explanation"}
MissingFields(data) == {f \in RequiredFields : data[f].type = "absent"}
ValidateReturned == vq_result.kind = "return"
SchemaPassed == ValidateReturned /\ vq_result.stage_results.schema

\* C16: a candidate missing any of the four required fields yields
\* is_valid = false, stage_results["schema"] = false and no question, and the
\* other stages are skipped: stage_results has the schema entry only.
C16_MissingFieldFailsSchema ==
    (vq_result.kind # "none" /\ vq_data.kind = "dict"
         /\ MissingFields(vq_data) # {}) =>
        /\ ValidateReturned
        /\ ~vq_result.is_valid
        /\ vq_result.stage_results = [schema |-> FALSE]
        /\ DOMAIN vq_result.stage_scores = {"schema"}
        /\ ~vq_result.question.present

\* the same for the calls of validate that return
MissingFieldFailsSchemaOnReturn ==
    (ValidateReturned /\ MissingFields(vq_data) # {}) =>
        /\ ~vq_result.is_valid
        /\ vq_result.stage_results = [schema |-> FALSE]
        /\ DOMAIN vq_result.stage_scores = {"schema"}
        /\ ~vq_result.question.present

\* a candidate that lacks the explanation only and whose correctAnswer is a
\* JSON array: validate raises in the schema stage
C16_Witness ==
    /\ vq_data.kind = "dict"
    /\ MissingFields(vq_data) = {"explanation"}
    /\ vq_data.options.items = GoodOptions
    /\ vq_data.correctAnswer.type = "list"
    /\ vq_result.kind = "raise"
    /\ vq_result.error = "TypeError"

\* C17: is_valid is true if and only if overall_score >= min_quality_score and
\* the schema stage passed and (the length stage passed or length_score >= 0.5)
\* and the construction of the GeneratedQuestion did not fail.
C17_ValidIff ==
    ValidateReturned =>
        (vq_result.is_valid <=>
            /\ vq_result.quality_score >= MinQualityScore * 100
            /\ vq_result.stage_results.schema
            /\ \/ vq_result.stage_results.length
               \/ vq_result.stage_scores.length >= 50
            /\ vq_result.question.present)

\* score, schema and length would allow the question, the construction fails
C17_Witness ==
    /\ SchemaPassed
    /\ vq_result.quality_score >= MinQualityScore * 100
    /\ vq_result.stage_results.length
    /\ ~vq_result.question.present
    /\ ~vq_result.is_valid

\* the candidate satisfies the field constraints of GeneratedQuestion and
\* QuestionOption, with the difficulty validate would give it
ModelAccepts(data, difficulty) ==
    /\ data.questionText.type = "str"
    /\ data.questionText.len \in ModelMinQuestionLength..ModelMaxQuestionLength
    /\ data.options.type = "list"
    /\ Len(data.options.items) = 4
    /\ \A i \in 1..Len(data.options.items) :
          /\ data.options.items[i].isdict
          /\ data.options.items[i].text.type = "str"
          /\ data.options.items[i].text.len \in ModelMinOptionLength..ModelMaxOptionLength
    /\ {data.options.items[i].id : i \in 1..Len(data.options.items)} = ExpectedIds
    /\ data.correctAnswer.type = "str"
    /\ data.correctAnswer.value \in ExpectedIds
    /\ data.explanation.type = "str"
    /\ data.explanation.len \in ModelMinExplanationLength..ModelMaxExplanationLength
    /\ \/ difficulty # "none"
       \/ data.difficulty.type = "absent"
       \/ data.difficulty.value \in DifficultyLevel

\* whenever a question is returned, it carries the result's decision and score
QuestionReflectsResult ==
    (ValidateReturned /\ vq_result.question.present) =>
        /\ vq_result.question.validation_passed = vq_result.is_valid
        /\ vq_result.question.quality_score = vq_result.quality_score
ValidImpliesQuestion ==
    (ValidateReturned /\ vq_result.is_valid) => vq_result.question.present

\* C18 as stated: a question is returned whenever the schema stage passed;
\* a returned question carries the result's is_valid and quality_score; and
\* is_valid implies that a question is returned.
C18_AsStated ==
    /\ SchemaPassed => vq_result.question.present
    /\ QuestionReflectsResult
    /\ ValidImpliesQuestion

\* C18: a question is returned exactly when the schema stage passed and the
\* candidate satisfies the constraints of the GeneratedQuestion model, also
\* when the overall decision is invalid; a returned question carries the
\* result's is_valid and quality_score; is_valid implies a question.
C18_QuestionWheneverConstructible ==
    /\ ValidateReturned =>
          (vq_result.question.present <=>
              (vq_result.stage_results.schema /\ ModelAccepts(vq_data, vq_difficulty)))
    /\ QuestionReflectsResult
    /\ ValidImpliesQuestion

\* a question is returned although the overall decision is invalid
C18_Witness ==
    /\ SchemaPassed
    /\ vq_result.question.present
    /\ ~vq_result.is_valid
    /\ ~vq_result.question.validation_passed
    /\ vq_result.quality_score > 0

\* C19: every GeneratedQuestion validate returns has exactly four options whose
\* ids are exactly A, B, C, D and a correct_answer among them, whatever the
\* candidate was.
C19_FourOptionsABCD ==
    (ValidateReturned /\ vq_result.question.present) =>
        /\ Len(vq_result.question.options) = 4
        /\ {vq_result.question.options[i].id :
               i \in 1..Len(vq_result.question.options)} = ExpectedIds
        /\ vq_result.question.correct_answer \in ExpectedIds

\* a question is returned for a candidate whose fourth option text is blank
C19_Witness ==
    /\ SchemaPassed
    /\ vq_data.options.items = BlankTextOptions
    /\ vq_result.question.present
    /\ vq_result.question.options[4].id = "D"
    /\ vq_result.question.correct_answer = "A"

\* C20: the quality_score validate reports is within [0, 1] (0..10000
\* ten-thousandths) for any candidate.
C20_ScoreInUnitRange ==
    ValidateReturned =>
        /\ vq_result.quality_score >= 0
        /\ vq_result.quality_score <= 10000
        /\ \A st \in DOMAIN vq_result.stage_scores :
              vq_result.stage_scores[st] \in 0..100

\* thirty empty options: the length stage's penalties exceed 1 and its score
\* is cut off at 0, while the schema stage passes
C20_Witness ==
    /\ SchemaPassed
    /\ vq_data.options.items = ThirtyEmptyOptions
    /\ ValidateLengths(vq_data).raw < -100
    /\ vq_result.stage_scores.length = 0

\* C21: for every candidate whose schema stage passes, the reported
\* quality_score is 0.20 x schema + 0.20 x length + 0.35 x quality
\* + 0.25 x semantic of the reported stage scores, each of which is within
\* [0, 1]; the length score is 1.0 minus its penalties, floored at 0.
C21_WeightedSum ==
    SchemaPassed =>
        /\ vq_result.quality_score =
              20 * vq_result.stage_scores.schema + 20 * vq_result.stage_scores.length
              + 35 * vq_result.stage_scores.quality
              + 25 * vq_result.stage_scores.semantic
        /\ \A st \in {"schema", "length", "quality", "semantic"} :
              vq_result.stage_scores[st] \in 0..100
        /\ vq_result.stage_scores.length = Max(0, ValidateLengths(vq_data).raw)

\* every stage has subtracted a penalty, and the weights make a difference
C21_Witness ==
    /\ SchemaPassed
    /\ \A st \in {"schema", "length", "quality", "semantic"} :
          vq_result.stage_scores[st] \in 1..99
    /\ vq_result.stage_scores.quality # vq_result.stage_scores.length
    /\ vq_result.quality_score #
          25 * (vq_result.stage_scores.schema + vq_result.stage_scores.length
                + vq_result.stage_scores.quality + vq_result.stage_scores.semantic)

\* the candidate is a mapping that gets past the schema stage
PastSchema(data) ==
    /\ data.kind = "dict"
    /\ ~SchemaRaises(data)
    /\ ValidateSchema(data).valid

\* C22: for any candidate mapping that gets past the schema stage, validate
\* does not raise in the later stages: a result is returned.
C22_NoRaiseAfterSchema ==
    (vq_result.kind # "none" /\ PastSchema(vq_data)) => ValidateReturned

\* a well-formed candidate whose explanation is a JSON number: the schema stage
\* passes with score 1.0 and the length stage raises on len(explanation)
C22_Witness ==
    /\ PastSchema(vq_data)
    /\ ValidateSchema(vq_data).score = 100
    /\ vq_data.questionText = GoodText
    /\ vq_data.options.items = GoodOptions
    /\ vq_data.explanation = Number
    /\ vq_result.kind = "raise"
    /\ vq_result.error = "TypeError"

\* C23: when the construction of the GeneratedQuestion fails after the schema
\* stage passed, validate does not raise: it returns is_valid = false, no
\* question, and an issues list that ends with the "Model creation failed"
\* entry, after the issues of the stages.
C23_ConstructionFailureReported ==
    (vq_result.kind # "none" /\ PastSchema(vq_data) /\ ~LengthsRaises(vq_data)
         /\ ~ModelAccepts(vq_data, vq_difficulty)) =>
        /\ ValidateReturned
        /\ ~vq_result.is_valid
        /\ ~vq_result.question.present
        /\ Len(vq_result.issues) > 0
        /\ vq_result.issues[Len(vq_result.issues)].stage = "model"
        /\ \A k \in 1..(Len(vq_result.issues) - 1) :
              /\ vq_result.issues[k].stage # "model"
              /\ vq_result.stage_scores[vq_result.issues[k].stage] < 100
        /\ \A st \in DOMAIN vq_result.stage_scores :
              vq_result.stage_scores[st] < 100 =>
                  \E k \in 1..(Len(vq_result.issues) - 1) :
                      vq_result.issues[k].stage = st

\* a candidate the model would accept but for its difficulty "bogus", with no
\* expected difficulty: score and stages allow it, the construction fails
C23_Witness ==
    /\ SchemaPassed
    /\ vq_difficulty = "none"
    /\ vq_data.difficulty.value = "bogus"
    /\ ModelAccepts(vq_data, "hard")
    /\ vq_result.quality_score >= MinQualityScore * 100
    /\ ~vq_result.question.present
    /\ Len(vq_result.issues) > 1
    /\ vq_result.issues[Len(vq_result.issues)].stage = "model"

(***************************************************************************)
(* The two decoding layers of _execute_request (SpecClient).               *)
(***************************************************************************)
\* response.json() fails: the body is no JSON
BodyDecodeFails(resp) == resp.transport = "ok" /\ resp.body = "not_json"
\* json.loads(response_text) fails: the body is an object with a non-empty
\* response text that is no JSON, and the payload asked for JSON
TextDecodeFails(format, resp) ==
    /\ resp.transport = "ok"
    /\ resp.body = "json_object"
    /\ resp.text = "not_json"
    /\ format = "json"
\* the attempt that ended the call
LastAttempt == client_log[Len(client_log)]
CallRaised == cpc = "raised" /\ Len(client_log) > 0

\* C24 as stated: a decode failure of the body and a decode failure of the
\* response text are reported with distinct error kinds: the error of a call
\* that failed at one layer differs from the error of any request that fails
\* at the other layer.
C24_AsStated ==
    /\ (CallRaised /\ BodyDecodeFails(LastAttempt.resp)) =>
          \A r \in EndpointBehaviours(LLMReplies) :
              TextDecodeFails("json", r) =>
                  ExecuteRequest("json", r).error # client_result.error
    /\ (CallRaised /\ TextDecodeFails(payload_format, LastAttempt.resp)) =>
          \A r \in EndpointBehaviours(LLMReplies) :
              BodyDecodeFails(r) =>
                  ExecuteRequest(payload_format, r).error # client_result.error

\* C24: a decode failure at either layer is reported as JSONParseError, and a
\* call ends with JSONParseError only for a decode failure; LLMResponseError
\* is reported exactly for an HTTP status error and for an empty response
\* text.
C24_DecodeFailuresSameKind ==
    CallRaised =>
        /\ (client_result.error = "JSONParseError") <=>
              (\/ BodyDecodeFails(LastAttempt.resp)
               \/ TextDecodeFails(payload_format, LastAttempt.resp))
        /\ (client_result.error = "LLMResponseError") <=>
              (\/ LastAttempt.resp.transport = "http_status_error"
               \/ /\ LastAttempt.resp.transport = "ok"
                  /\ LastAttempt.resp.body = "json_object"
                  /\ LastAttempt.resp.text = "empty")

\* a call ended at its first attempt by a body that is no JSON
C24_Witness ==
    /\ CallRaised
    /\ Len(client_log) = 1
    /\ BodyDecodeFails(LastAttempt.resp)
    /\ client_result.error = "JSONParseError"

(***************************************************************************)
(* Two calls of chunk_text on one chunker (SpecChunkerTwice)               *)
(***************************************************************************)
BothCalled == ck_result.kind # "none" /\ ck_result2.kind # "none"
\* the chunks of both calls, each with the call it came from
BothChunks ==
    {<<1, ck_result.chunks[i]>> : i \in 1..Len(ck_result.chunks)}
        \cup {<<2, ck_result2.chunks[i]>> : i \in 1..Len(ck_result2.chunks)}
SameTextSameHash(cs) ==
    \A c \in cs, d \in cs :
        c[2].text = d[2].text =>
            /\ c[2].hash = d[2].hash
            /\ c[2].id[3] = d[2].id[3]
            /\ c[2].id = <<"chunk", c[2].chunk_index, c[2].hash>>

HealthChecked == health.kind # "none"
\* a occurs in b as a run of consecutive characters
IsSubstring(a, b) ==
    \E k \in 0..(Len(b) - Len(a)) : \A j \in 1..Len(a) : b[k + j] = a[j]
\* the names check_health read from the answer
ListedNames == [i \in 1..Len(health.models) |-> health.models[i].value]

\* C26: check_health makes one GET and always returns. A failed call (no
\* connection, an error status, a body or a list it cannot read) returns
\* healthy = false, model_available = false and no models; a successful call
\* returns healthy = true, the listed names, and model_available true iff the
\* configured model name occurs inside at least one listed name.
C26_HealthNeverRaises ==
    HealthChecked =>
        /\ health.kind = "return"
        /\ health.requests = 1
        /\ health.resp.transport # "ok" => ~health.healthy
        /\ ~health.healthy =>
              /\ ~health.model_available
              /\ health.models = <<>>
              /\ health.error
        /\ health.healthy =>
              /\ health.resp.transport = "ok"
              /\ ~health.error
              /\ Len(health.models) = Len(health.resp.models.items)
              /\ health.model_available <=>
                    \E i \in 1..Len(ListedNames) :
                        IsSubstring(client_model, ListedNames[i])

\* the model "w" is available because "w." is listed, and no listed name
\* equals it
C26_Witness ==
    /\ HealthChecked
    /\ health.healthy
    /\ health.model_available
    /\ client_model = <<"w">>
    /\ Len(health.models) = 2
    /\ \A i \in 1..2 : health.models[i].value # client_model

(***************************************************************************)
(* The order of the questions in the response (Spec)                       *)
(***************************************************************************)
\* the accepted questions of the chunks taken so far, in the order of the log
RECURSIVE AcceptedUpTo(_, _)
AcceptedUpTo(log, n) ==
    IF n = 0 THEN <<>> ELSE AcceptedUpTo(log, n - 1) \o log[n].questions

\* qs can be obtained from cands by dropping elements
RECURSIVE Embeds(_, _)
Embeds(qs, cands) ==
    \/ qs = <<>>
    \/ /\ cands # <<>>
       /\ \/ Head(qs) = Head(cands) /\ Embeds(Tail(qs), Tail(cands))
          \/ Embeds(qs, Tail(cands))

\* what validate makes of each candidate of the reply, in the reply's order
ValidatedCandidates(result, difficulty) ==
    [i \in 1..Len(CandidatesOf(result)) |->
        Validate(CandidatesOf(result)[i], difficulty, TRUE).question]

\* the step ends an iteration that asked the client
MissEnds == gpc = "await" /\ gpc' = "loop"

\* C27: the response's questions are a prefix of the concatenation of the
\* chunks' accepted questions taken in increasing chunk_index order, cut only
\* at the tail (to request.count); a cache hit contributes the cached list and
\* a miss the accepted candidates in the order of the reply.
C27_ResponseIsPrefixInChunkOrder ==
    /\ [](response.present =>
            /\ IsPrefix(response.questions, AcceptedUpTo(chunk_log, Len(chunk_log)))
            /\ Len(response.questions) =
                  Min(request.count, Len(AcceptedUpTo(chunk_log, Len(chunk_log))))
            /\ Len(chunk_log) = Len(chunks)
            /\ \A i \in 1..Len(chunk_log) :
                  /\ chunk_log[i].position = i
                  /\ chunks[i].chunk_index = i - 1
                  /\ Hit(chunk_log[i]) => chunk_log[i].questions = chunk_log[i].cached)
    /\ [](all_questions = IF response.present THEN response.questions
                          ELSE AcceptedUpTo(chunk_log, idx - 1))
    /\ [][MissEnds =>
            /\ Embeds(NewEntry.questions,
                      ValidatedCandidates(client_result, request.difficulty))
            /\ \A i \in 1..Len(NewEntry.questions) : NewEntry.questions[i].present]_vars

\* two chunks with different accepted questions, the second chunk's question
\* cut off by the count
C27_Witness ==
    /\ response.present
    /\ Len(chunk_log) = 2
    /\ Len(chunk_log[1].questions) = 1
    /\ Len(chunk_log[2].questions) = 1
    /\ chunk_log[1].questions # chunk_log[2].questions
    /\ response.questions = chunk_log[1].questions

(***************************************************************************)
(* The cost and the termination of a run (SpecFair)                        *)
(***************************************************************************)
\* the run is in its loop over the chunks
Running == gpc \in {"loop", "await"}

\* C28: a chunk causes at most one generate call of the client and at most
\* 4 HTTP attempts, a run over n chunks at most n calls and
\* 4n attempts; and a run whose every attempt and sleep ends goes through all
\* its chunks and returns a response, whatever the endpoint answers.
C28_BoundedAttemptsAndTermination ==
    /\ [](/\ \A i \in 1..Len(chunk_log) :
               /\ chunk_log[i].client_calls <= 1
           /\ AttemptsMade <= 4
           /\ calls <= Len(chunks)
           /\ Len(chunk_log) <= Len(chunks)
           /\ run_attempts <= 4 * calls
           /\ run_attempts <= 4 * Len(chunks))
    /\ (Running ~> (gpc = "done" /\ response.present /\ Len(chunk_log) = Len(chunks)))

\* a run of two chunks that made eight attempts, all failed, and returned
C28_Witness ==
    /\ response.present
    /\ Len(chunks) = 2
    /\ run_attempts = 8
    /\ chunk_log[1].client_raised
    /\ chunk_log[2].client_raised
    /\ response.questions = <<>>

(***************************************************************************)
(* The client of a /generate run (SpecHandler)                             *)
(***************************************************************************)
RunEnded == hpc \in {"returned", "raised", "abandoned"}

\* C29: when a run started through the /generate handler has ended - it
\* returned a response, it raised, or it was abandoned while a chunk's client
\* call was in flight - the HTTP client the run opened is closed (absent).
C29_ClientClosedWhenRunEnds == RunEnded => http_client = "absent"

\* a run abandoned in its second chunk's client call: its client stays open
C29_Witness ==
    /\ hpc = "abandoned"
    /\ http_client = "open"
    /\ idx = 2
    /\ cpc = "sleeping"

\* what the code does: a run that returned or raised leaves no client open;
\* an abandoned run leaves open the client it had opened
C29_ClosedUnlessAbandoned ==
    /\ hpc \in {"returned", "raised"} => http_client = "absent"
    /\ hpc = "abandoned" => http_client = "open"
    /\ (hpc = "running" /\ gpc = "await") => http_client = "open"

(***************************************************************************)
(* _get_overlap_sentences on the lists the loop closes (SpecChunkerWords)  *)
(***************************************************************************)
\* overlap is the longest suffix of sentences within the target, or the last
\* sentence alone when that is longer than the target
LongestSuffixWithin(sentences, target_words, overlap) ==
    /\ overlap # <<>>
    /\ IsSuffix(overlap, sentences)
    /\ SumWords(overlap) <= target_words \/ Len(overlap) = 1
    /\ WordCount(sentences[Len(sentences)]) > target_words => Len(overlap) = 1
    /\ Len(overlap) < Len(sentences) =>
          SumWords(SubSeq(sentences, Len(sentences) - Len(overlap), Len(sentences)))
              > target_words

OverlapsAsStated(lists, target_words) ==
    \A i \in 1..Len(lists) :
        LongestSuffixWithin(lists[i], target_words,
                            GetOverlapSentences(lists[i], target_words))

\* C30: for every sentence list the loop closes a chunk on, what
\* _get_overlap_sentences returns for it is, in the original order, the
\* longest suffix of the list whose words do not exceed the overlap target,
\* except that the last sentence is included even when it alone exceeds the
\* target; it is never empty.
C30_OverlapIsLongestSuffix ==
    MultiPath => OverlapsAsStated(LoopEnd.lists, chunker.overlap_words)

\* a run with overlap target 2 that closed one list on two short sentences,
\* both carried over, and one list on a sentence of more than two words,
\* carried over alone
OverlapLengths(lists, target_words) ==
    [i \in 1..Len(lists) |-> Len(GetOverlapSentences(lists[i], target_words))]
OverlapCases(lists, lens) ==
    /\ \E i \in 1..Len(lists) : lens[i] = 2 /\ Len(lists[i]) > 2
    /\ \E i \in 1..Len(lists) :
          /\ lens[i] = 1
          /\ Len(lists[i]) > 1
          /\ WordCount(lists[i][Len(lists[i])]) > 2
C30_Witness ==
    /\ MultiPath
    /\ chunker.respect_sentences
    /\ chunker.overlap_words = 2
    /\ OverlapCases(LoopEnd.lists, OverlapLengths(LoopEnd.lists, 2))

(***************************************************************************)
(* When the loop closes a chunk (SpecChunkerWords)                         *)
(***************************************************************************)
\* the list without its last sentence
ButLast(l) == SubSeq(l, 1, Len(l) - 1)
\* the buffer the list lists[i] grew from: empty, or the overlap of the list
\* before it
SeedOf(lists, i, target_words) ==
    IF i = 1 THEN <<>> ELSE GetOverlapSentences(lists[i - 1], target_words)

\* every closed list reached size with its last sentence and not before it
\* (the buffer is only tested after a sentence is appended, so a seed that
\* has size words already is closed with the next sentence)
ClosedOnReaching(lists, chunk_list, size, target_words) ==
    \A i \in 1..Len(lists) :
        /\ SumWords(lists[i]) >= size
        /\ chunk_list[i].word_count = SumWords(lists[i])
        /\ IsPrefix(SeedOf(lists, i, target_words), ButLast(lists[i]))
        /\ \/ SumWords(ButLast(lists[i])) < size
           \/ ButLast(lists[i]) = SeedOf(lists, i, target_words)

\* what is left in the buffer after the loop never reached size, unless it
\* is the seed alone
OpenBelowSize(st, size, target_words) ==
    \/ st.current_word_count < size
    \/ /\ st.lists # <<>>
       /\ st.current_sentences = SeedOf(st.lists, Len(st.lists) + 1, target_words)

PassedLowerBound(lists, self) ==
    \E i \in 1..Len(lists) :
        /\ SumWords(ButLast(lists[i])) >= self.min_chunk_words
        /\ SumWords(ButLast(lists[i])) < self.chunk_size_words
        /\ Len(lists[i]) > 2
MissEndStep == gpc = "await" /\ gpc' = "loop"
\* the entry of the store that a lookup of this chunk reads
EntryOf(store, chunk, difficulty) == store[GetQuestionCacheKey(chunk.text, difficulty)]
\* a lookup of this chunk in this store yields questions
Usable(store, chunk, difficulty) == GetFromCache(store, chunk, difficulty, FALSE) # <<>>

\* C32: on a miss with use_cache true the store is written at most once for
\* the chunk, at the chunk's own key, with the accepted questions only (all
\* with validation_passed) and only when there is one; a chunk that yields no
\* accepted question leaves the store as it was, and a lookup that finds
\* nothing usable for a chunk sends the chunk to the client.
C32_MissWritesAcceptedOnly ==
    /\ [][(MissEndStep /\ request.use_cache) =>
            LET e == chunk_log'[Len(chunk_log')]
                key == GetQuestionCacheKey(chunks[idx].text, request.difficulty)
            IN /\ \A k \in CacheKeys \ {key} : redis'[k] = redis[k]
               /\ e.cache_sets <= 1
               /\ (e.cache_sets = 1) <=> (e.questions # <<>>)
               /\ (e.questions = <<>>) => (redis' = redis)
               /\ (redis'[key] # redis[key]) =>
                     /\ redis'[key].present
                     /\ Len(redis'[key].questions) = Len(e.questions)
                     /\ Len(e.questions) >= 1
                     /\ \A i \in 1..Len(e.questions) :
                           /\ e.questions[i].validation_passed
                           /\ redis'[key].questions[i] = ModelDump(e.questions[i])]_vars
    /\ [][(LookupStep /\ request.use_cache
            /\ ~Usable(redis, chunks[idx], request.difficulty)) =>
            /\ NewEntry.client_calls = 1
            /\ gpc' = "await"]_vars

\* the second request, with use_cache true: the first chunk found no entry,
\* went to the client, every candidate was rejected, and the chunk still has
\* no entry
C32_Witness ==
    /\ requests = 2
    /\ request.use_cache
    /\ gpc = "loop"
    /\ Len(chunk_log) >= 1
    /\ chunk_log[1].looked_up
    /\ ~chunk_log[1].cache_data
    /\ chunk_log[1].client_calls = 1
    /\ chunk_log[1].llm_candidates >= 1
    /\ chunk_log[1].questions = <<>>
    /\ chunk_log[1].cache_sets = 0
    /\ ~EntryOf(redis, chunks[1], request.difficulty).present

(***************************************************************************)
(* validation_passed of what is served and stored (Spec)                   *)
(***************************************************************************)
AllPassed(questions) == \A i \in 1..Len(questions) : questions[i].validation_passed
StoredPassed(store) ==
    \A k \in CacheKeys :
        store[k].present =>
            \A i \in 1..Len(store[k].questions) : store[k].questions[i].validationPassed
\* the question objects validate built for candidates it found invalid
Rejected(results) ==
    {results[i].question : i \in {j \in 1..Len(results) :
        /\ results[j].kind = "return"
        /\ ~results[j].is_valid
        /\ results[j].question.present}}

\* C33: from an empty store written by the generator alone, every question
\* of every response, of the running list and of the store has
\* validation_passed, whether it came from the client or from the store;
\* a question object of a validation result with is_valid false is neither
\* accepted nor stored.
C33_OnlyValidatedQuestions ==
    /\ [](/\ response.present => AllPassed(response.questions)
          /\ AllPassed(all_questions)
          /\ \A i \in 1..Len(chunk_log) : AllPassed(chunk_log[i].questions)
          /\ StoredPassed(redis))
    /\ [][MissEndStep =>
            LET rejected == Rejected(ValidateAll(CandidatesOf(client_result),
                                                 request.difficulty, TRUE))
                key == GetQuestionCacheKey(chunks[idx].text, request.difficulty)
            IN /\ \A i \in 1..Len(all_questions') : all_questions'[i] \notin rejected
               /\ redis'[key].present =>
                     \A i \in 1..Len(redis'[key].questions) :
                        \A q \in rejected : redis'[key].questions[i] # ModelDump(q)]_vars

\* a response that holds a question served from the store and a question of
\* a chunk for which the validator rejected another candidate
C33_Witness ==
    /\ response.present
    /\ response.from_cache
    /\ Len(response.questions) = 2
    /\ \E i \in 1..Len(chunk_log) : Hit(chunk_log[i])
    /\ \E i \in 1..Len(chunk_log) :
          /\ ~Hit(chunk_log[i])
          /\ chunk_log[i].questions # <<>>
          /\ chunk_log[i].llm_candidates > Len(chunk_log[i].questions)

(***************************************************************************)
(* A request with use_cache false (Spec)                                   *)
(***************************************************************************)
\* the step is a step of generate after its chunking
RunStepOfGenerate ==
    /\ requests' = requests
    /\ \/ gpc' # gpc
       \/ idx' # idx
       \/ chunk_log' # chunk_log
       \/ response' # response

\* C34: a run with use_cache false neither reads nor writes the store: no
\* step of the run changes it, no chunk is looked up, every chunk goes to the
\* client, and from_cache stays false in the run and in the response, also
\* when the store holds usable entries for the same chunks.
C34_UncachedRunLeavesCache ==
    /\ [][(~request.use_cache /\ RunStepOfGenerate) => redis' = redis]_vars
    /\ [](~request.use_cache =>
            /\ ~from_cache
            /\ response.present => ~response.from_cache
            /\ \A i \in 1..Len(chunk_log) :
                  /\ ~chunk_log[i].looked_up
                  /\ chunk_log[i].cached = <<>>
                  /\ chunk_log[i].client_calls = 1
                  /\ chunk_log[i].cache_sets = 0)

\* a finished run with use_cache false whose first chunk has a usable entry
\* in the store, went to the client and yielded a question
C34_Witness ==
    /\ response.present
    /\ ~request.use_cache
    /\ response.questions # <<>>
    /\ Usable(redis, chunks[1], request.difficulty)
    /\ chunk_log[1].client_calls = 1
    /\ chunk_log[1].questions # <<>>

(***************************************************************************)
(* Faults of the store (Spec)                                              *)
(***************************************************************************)
\* C35: a fault of the store never fails a run. A lookup that fails, finds
\* nothing, or finds an entry of which no question loads is a miss: the run
\* goes on and the chunk is sent to the client; what is served on a hit are
\* loaded questions. When the write after a miss fails, the store is left as
\* it was and the run goes on with the same questions and totals as when the
\* write succeeds.
C35_CacheFaultsAreMisses ==
    /\ [][(LookupStep /\ request.use_cache) =>
            /\ gpc' # "failed"
            /\ NewEntry.cached = <<>> => (NewEntry.client_calls = 1 /\ gpc' = "await")
            /\ ~NewEntry.cache_data => NewEntry.cached = <<>>
            /\ \A i \in 1..Len(NewEntry.cached) : NewEntry.cached[i].present]_vars
    /\ [][MissEndStep =>
            LET e == chunk_log'[Len(chunk_log')] IN
            /\ all_questions' = all_questions \o e.questions
            /\ total_generated' = total_generated + e.generated
            /\ from_cache' = from_cache
            /\ idx' = idx + 1
            /\ redis' \in {redis, SaveToCache(redis, chunks[idx], request.difficulty,
                                              e.questions, FALSE)}]_vars

\* a finished run in which the lookup of the first chunk read an entry of
\* which no question loads, the chunk went to the client, its question was
\* handed to the store and is in the response, and the store still holds the
\* old entry
C35_Witness ==
    /\ response.present
    /\ request.use_cache
    /\ chunk_log[1].cache_data
    /\ chunk_log[1].cached = <<>>
    /\ chunk_log[1].client_calls = 1
    /\ chunk_log[1].cache_sets = 1
    /\ response.questions = chunk_log[1].questions
    /\ Len(chunks) = 1
    /\ EntryOf(redis, chunks[1], request.difficulty).present
    /\ ~Usable(redis, chunks[1], request.difficulty)
    /\ EntryOf(redis, chunks[1], request.difficulty).questions #
          [i \in 1..Len(chunk_log[1].questions) |-> ModelDump(chunk_log[1].questions[i])]

(***************************************************************************)
(* chunk_text returns a chunk (SpecChunkerLong)                            *)
(***************************************************************************)
\* C36: for every text that is not blank and has a sentence, chunk_text
\* returns at least one chunk, the first with chunk_index 0: what is left in
\* the buffer after the loop is never skipped when no chunk was closed, also
\* when the whole text stayed below the target.
C36_AtLeastOneChunk ==
    (ChunkTextCalled /\ ~IsBlank(ck_text) /\ SentencesOf(chunker, ck_text) # <<>>) =>
        /\ ck_result.kind = "return"
        /\ Len(ck_result.chunks) >= 1
        /\ ck_result.total_chunks = Len(ck_result.chunks)
        /\ ck_result.chunks[1].chunk_index = 0
        /\ ~ck_result.chunks[1].overlap_start

\* the text went through the loop, which closed no chunk: the one chunk
\* returned is the remainder, below the target
C36_Witness ==
    /\ MultiPath
    /\ LoopEnd.chunk_index = 0
    /\ LoopEnd.current_word_count < chunker.chunk_size_words
    /\ Len(ck_result.chunks) = 1
    /\ ~ck_result.chunks[1].overlap_end

(***************************************************************************)
(* What a chunk adds to the overlap it starts with (SpecChunkerWords)      *)
(***************************************************************************)
\* the sentence list of chunk i is longer than the overlap it was seeded with
AddsSentence(lists, i, target_words) ==
    Len(lists[i]) > Len(SeedOf(lists, i, target_words))

\* C37: every chunk after the first, the last one included, holds at least
\* one sentence beyond the overlap carried over from the chunk before it.
C37_EveryChunkAddsSentence ==
    MultiPath =>
        \A i \in 2..Len(ChunkLists) : AddsSentence(ChunkLists, i, chunker.overlap_words)

\* every chunk closed in the loop holds a sentence beyond its seed
C37_ClosedChunksAddSentence ==
    MultiPath =>
        \A i \in 2..Len(LoopEnd.lists) :
            AddsSentence(LoopEnd.lists, i, chunker.overlap_words)

\* the loop closed a chunk with the last sentence of the text, and the buffer
\* left over, which is the overlap alone, was returned as the last chunk
C37_Witness ==
    /\ MultiPath
    /\ chunker.min_chunk_words \div 2 >= 2
    /\ chunker.overlap_words <= chunker.min_chunk_words
    /\ Len(ck_result.chunks) = Len(LoopEnd.lists) + 1
    /\ Len(LoopEnd.lists) >= 1
    /\ LoopEnd.current_sentences =
          GetOverlapSentences(LoopEnd.lists[Len(LoopEnd.lists)], chunker.overlap_words)
    /\ ck_result.chunks[Len(ck_result.chunks)].text = Join(LoopEnd.current_sentences)
    /\ IsSuffix(LoopEnd.current_sentences, LoopEnd.lists[Len(LoopEnd.lists)])

(***************************************************************************)
(* The character offsets of the chunks (SpecChunkerWords)                  *)
(***************************************************************************)
OffsetsInText(c, text) ==
    /\ 0 <= c.start_index
    /\ c.start_index <= c.end_index
    /\ c.end_index <= Len(text)
StartsAfterPrevious(chunk_list) ==
    \A i \in 2..Len(chunk_list) : chunk_list[i].start_index >= chunk_list[i - 1].end_index

\* C38: every returned chunk has 0 <= start_index <= end_index <= the length
\* of the original text, and every chunk starts at or after the end_index of
\* the chunk before it, whether its first characters were found in the text
\* or the fallback offset was used.
C38_OffsetsOrdered ==
    Returned =>
        /\ \A i \in 1..Len(ck_result.chunks) : OffsetsInText(ck_result.chunks[i], ck_text)
        /\ StartsAfterPrevious(ck_result.chunks)

\* the parts of the statement that hold: no negative start_index, and every
\* chunk starts at or after the end_index of the chunk before it
C38_StartNonNegative ==
    Returned => \A i \in 1..Len(ck_result.chunks) : ck_result.chunks[i].start_index >= 0
C38_StartsOrdered == Returned => StartsAfterPrevious(ck_result.chunks)

\* a chunk closed in the loop ends past the end of the text, and the last
\* chunk, which ends at the length of the text, starts after its own end
C38_Witness ==
    /\ Returned
    /\ Len(ck_result.chunks) >= 3
    /\ chunker.chunk_size_words = 5
    /\ \E i \in 1..(Len(ck_result.chunks) - 1) :
          ck_result.chunks[i].end_index > Len(ck_text)
    /\ LET last == ck_result.chunks[Len(ck_result.chunks)]
       IN /\ last.end_index = Len(ck_text)
          /\ last.start_index > last.end_index

(***************************************************************************)
(* The overlap_words a caller passes (SpecChunker)                         *)
(***************************************************************************)
\* the constructor arguments from which the chunker of this state is built
BuiltFrom(size, overlap, respect) == chunker = TextChunkerInit(size, overlap, respect)
\* the buffer after every closed chunk is the overlap for this target
SeededWith(lists, target_words) ==
    \A i \in 2..Len(lists) :
        /\ IsPrefix(GetOverlapSentences(lists[i - 1], target_words), lists[i])
        /\ SeedOf(lists, i, chunker.overlap_words) =
              GetOverlapSentences(lists[i - 1], target_words)

\* C39: the chunker uses the overlap_words its caller passed, for every
\* value from 0 up: its overlap_words field is that value and every next
\* chunk is seeded with the overlap for that value; a chunker built with
\* overlap_words = 0 seeds with a target of 0 words, not with the default.
C39_OverlapAsPassed ==
    \A size \in 0..MaxChunkSize, overlap \in 0..MaxOverlap, respect \in BOOLEAN :
        BuiltFrom(size, overlap, respect) =>
            /\ chunker.overlap_words = overlap
            /\ MultiPath => SeededWith(ChunkLists, overlap)

\* the part that holds: a value other than 0 is used as passed
C39_NonZeroOverlapAsPassed ==
    \A size \in 0..MaxChunkSize, overlap \in 1..MaxOverlap, respect \in BOOLEAN :
        BuiltFrom(size, overlap, respect) =>
            /\ chunker.overlap_words = overlap
            /\ MultiPath => SeededWith(ChunkLists, overlap)

\* a chunker built with overlap_words = 0 holds the default, and the second
\* chunk of its output begins with all the sentences of the first, more than
\* the overlap for a target of 0 words
C39_Witness ==
    /\ \E size \in 1..MaxChunkSize, respect \in BOOLEAN : BuiltFrom(size, 0, respect)
    /\ chunker.overlap_words = DefaultChunkOverlapWords
    /\ MultiPath
    /\ Len(ChunkLists) >= 2
    /\ IsPrefix(ChunkLists[1], ChunkLists[2])
    /\ Len(GetOverlapSentences(ChunkLists[1], 0)) < Len(ChunkLists[1])

(***************************************************************************)
(* The semantic stage (SpecValidator)                                      *)
(***************************************************************************)
\* the issues of the semantic stage in a result of a call that went through
\* the four stages
SemanticIssues(result) == SelectSeq(result.issues, LAMBDA e : e.stage = "semantic")

\* C40: in every result whose schema stage passed, the semantic stage has
\* passed with a score of at least 0.65, with and without a source text;
\* without a source text its score is 1.0 and it reports no issue.
C40_SemanticNeverFails ==
    SchemaPassed =>
        /\ vq_result.stage_results.semantic
        /\ vq_result.stage_scores.semantic >= 65
        /\ vq_result.stage_scores.semantic <= 100
        /\ ~vq_source =>
              /\ vq_result.stage_scores.semantic = 100
              /\ SemanticIssues(vq_result) = <<>>

\* a result with a source text in which both penalties of the stage were
\* taken: the score is 0.65, the stage has passed and reports its issue
C40_Witness ==
    /\ SchemaPassed
    /\ vq_source
    /\ vq_result.stage_scores.semantic = 65
    /\ vq_result.stage_results.semantic
    /\ SemanticIssues(vq_result) # <<>>

====
